---------------------------- MODULE Spec2Model ----------------------------
(***************************************************************************)
(* Model of the Google Trends "Trending Now" scraper:                      *)
(*   - utils.retry_with_backoff                                            *)
(*   - scraper.GoogleTrendsScraper.scrape_trends with its export modes     *)
(*     and the DOM fallback                                                *)
(*   - translator.FreeTranslator / GPTTranslator, translate_trend_items    *)
(*   - scraper.run_scraper with the browser session                        *)
(*   - trends_trending_now.main, the command of the full CLI               *)
(*   - scraper._extract_single_trend and utils.parse_relative_time         *)
(*   - exporter.DataExporter.export_data                                   *)
(*   - utils.parse_search_volume                                           *)
(*   - scraper.GoogleTrendsScraper._apply_filters                          *)
(* Each subsystem has its own specification (SpecRetry, SpecScrape,        *)
(* SpecTranslator, SpecTopicsBatch, SpecItems, SpecRun, SpecCli,           *)
(* SpecExtract, SpecExport, SpecVolume, SpecFilters; SpecPaging is the     *)
(* scraper with fairness) over one set of variables; the variables a       *)
(* specification does not use stay at their idle values.                   *)
(***************************************************************************)
EXTENDS Integers, Sequences, FiniteSets, TLC

VARIABLES
    \* ---- retry_with_backoff (utils.py) ----
    max_retries,      \* argument max_retries
    initial_delay,    \* argument initial_delay
    backoff_factor,   \* argument backoff_factor
    attempt,          \* loop variable of "for attempt in range(max_retries + 1)"
    delay,            \* local delay
    last_exception,   \* local last_exception: 0 is None, k is the exception of call k
    retry_pc,         \* "idle" | "loop" | "returned" | "raised"
    calls,            \* number of invocations of func so far
    outcomes,         \* outcome of each invocation, in order
    sleeps,           \* the delays passed to asyncio.sleep, in order
    retry_result      \* what retry_with_backoff returned or raised

retryVars == <<max_retries, initial_delay, backoff_factor, attempt, delay,
               last_exception, retry_pc, calls, outcomes, sleeps, retry_result>>

VARIABLES
    \* ---- GoogleTrendsScraper.scrape_trends (scraper.py) ----
    params,           \* self.params (the FetchParams fields the scraper reads)
    params0,          \* params as they were when scrape_trends was called
    pc,               \* position inside scrape_trends
    trends,           \* local trends of the running DOM loop
    page_index,       \* local page_index of the running DOM loop
    original_mode,    \* local original_mode of _fallback_to_dom_scraping
    in_fallback,      \* _fallback_to_dom_scraping is on the call stack
    fallback_from,    \* where the running fallback was called: "try" | "handler"
    fallback_runs,    \* how many times the fallback was started
    extracted,        \* every item the DOM loops extracted, before truncation
    seen,             \* what the export mode observed on the page
    scrape_result     \* what scrape_trends returned or raised

scrapeVars == <<params, params0, pc, trends, page_index, original_mode,
                in_fallback, fallback_from, fallback_runs, extracted, seen,
                scrape_result>>

VARIABLES
    \* ---- TranslatorBase / FreeTranslator / GPTTranslator (translator.py) ----
    provider,         \* class of the translator instance: "free" | "gpt" | "none"
    source_lang,      \* the source_lang argument this instance is called with
    cache,            \* self._cache: cache key -> translation
    call              \* the last translate / translate_batch call and its effects

translatorVars == <<provider, source_lang, cache, call>>

VARIABLES
    \* ---- translate_trend_items (translator.py) ----
    items,            \* the list of TrendItem objects (translated in place)
    items0,           \* the list as scrape_trends returned it
    tti               \* the last translate_trend_items call and its effects

itemsVars == <<items, items0, tti>>

VARIABLES
    \* ---- run_scraper (scraper.py) ----
    run_pc,           \* position inside run_scraper
    run_params,       \* the translation fields of params
    env,              \* the API-key environment variables that are set
    browser,          \* self.browser: "none" | "open" | "closed"
    context,          \* self.context: "none" | "open" | "closed"
    page,             \* self.page: "none" | "open" | "closed"
    translation_step, \* how the translation step of the run went
    run_result,       \* what run_scraper returned or raised
    close_log         \* the close() calls of the last close_browser, in order

runVars == <<run_pc, run_params, env, browser, context, page, translation_step,
            run_result, close_log>>

VARIABLES
    \* ---- main of the full CLI (trends_trending_now.py) ----
    cli_pc,           \* position inside main
    cli_args,         \* the command-line options main reads
    cli_params,       \* the translation fields of the FetchParams main builds
    cli_scrape,       \* how asyncio.run(run_main_scraping(params)) ended
    cli_trends,       \* number of items it returned
    cli_output,       \* how the output branch ended
    cli_report,       \* the ErrorReport main tried to write
    cli_code          \* the value main returned (-1: not yet)

cliVars == <<cli_pc, cli_args, cli_params, cli_scrape, cli_trends, cli_output,
            cli_report, cli_code>>

VARIABLES
    \* ---- _extract_single_trend, parse_relative_time ----
    row_text,         \* the row's inner text, as its lines
    single_trend,     \* what _extract_single_trend returned for it
    prt               \* the last parse_relative_time call and its result

extractVars == <<row_text, single_trend, prt>>

VARIABLES
    \* ---- DataExporter.export_data (exporter.py) ----
    exp_trends,       \* the list of TrendItem objects to export
    exp_format,       \* the format argument
    exp_io,           \* whether the file system accepts the write
    exp_result,       \* what export_data returned: "true" | "false" ("none": not yet)
    exp_file          \* the rows written to output_path

exportVars == <<exp_trends, exp_format, exp_io, exp_result, exp_file>>

VARIABLES
    \* ---- parse_search_volume (utils.py) ----
    volume_text,      \* the argument volume_text
    psv               \* the results of parse_search_volume: of volume_text, then of that result

volumeVars == <<volume_text, psv>>

VARIABLES
    \* ---- GoogleTrendsScraper._apply_filters (scraper.py) ----
    fparams,          \* the filter fields of self.params
    filter_pc,        \* position inside _apply_filters
    setters,          \* the setters _apply_filters has called, in order
    clicks            \* the page controls clicked so far, in order

filterVars == <<fparams, filter_pc, setters, clicks>>

\* The subsystems beside run_scraper.
laterVars == <<cliVars, extractVars, exportVars, volumeVars, filterVars>>

vars == <<retryVars, scrapeVars, translatorVars, itemsVars, runVars, laterVars>>

\* Everything but the variables of one subsystem.
notRetry == <<scrapeVars, translatorVars, itemsVars, runVars, laterVars>>
notScrape == <<translatorVars, itemsVars, runVars, laterVars>>
notTranslator == <<retryVars, scrapeVars, itemsVars, runVars, laterVars>>
notItems == <<retryVars, scrapeVars, runVars, laterVars>>
notRun == <<retryVars, scrapeVars, laterVars>>
notCli == <<retryVars, scrapeVars, translatorVars, itemsVars, runVars,
           extractVars, exportVars, volumeVars, filterVars>>
notExtract == <<retryVars, scrapeVars, translatorVars, itemsVars, runVars,
               cliVars, exportVars, volumeVars, filterVars>>
notExport == <<retryVars, scrapeVars, translatorVars, itemsVars, runVars,
              cliVars, extractVars, volumeVars, filterVars>>
notVolume == <<retryVars, scrapeVars, translatorVars, itemsVars, runVars,
              cliVars, extractVars, exportVars, filterVars>>
notFilter == <<retryVars, scrapeVars, translatorVars, itemsVars, runVars,
              cliVars, extractVars, exportVars, volumeVars>>

-----------------------------------------------------------------------------
(* Bounds of the model *)

\* Largest max_retries tried (the smallest is -1: the CLI accepts any integer).
MaxRetries == 3
\* Largest initial_delay tried.
MaxInitialDelay == 2
\* Largest backoff_factor tried.
MaxBackoff == 2

\* Largest positive limit tried (0 stands for "not set", -1 is also tried).
MaxLimit == 2
\* Largest max_retries the scraper is run with.
MaxNavRetries == 1
\* Pages the "next page" control can lead to.
MaxPages == 2
\* Most items one page yields.
MaxRows == 2
\* Most rows a downloaded CSV holds.
MaxCsvRows == 3

\* Longest list passed to translate_batch.
MaxBatch == 2

\* Most |||-separated segments in a chat-completion content.
MaxSegments == 3

\* Longest item list passed to translate_trend_items.
MaxItems == 2
\* Longest item list scrape_trends returns to run_scraper.
MaxRunItems == 2

\* Most lines of a row's text (a row needs four to be extracted).
MaxRowLines == 4
\* Longest item list passed to export_data.
MaxExportItems == 2

\* Longest item list the scraper returns to the CLI.
MaxCliItems == 2

\* Longest volume text parse_search_volume is tried on.
MaxVolumeLen == 3

\* Defaults of retry_with_backoff's keyword arguments.
DefaultInitialDelay == 1
DefaultBackoffFactor == 2

-----------------------------------------------------------------------------
(* Generic helpers *)

Min(a, b) == IF a <= b THEN a ELSE b

\* s[:n] for n >= 0
Take(s, n) == SubSeq(s, 1, Min(n, Len(s)))

\* s[n:] for n >= 0
Drop(s, n) == SubSeq(s, Min(n, Len(s)) + 1, Len(s))

Max(a, b) == IF a >= b THEN a ELSE b

\* Python's s[:n] for any integer n (a negative n counts from the end).
PySliceTo(s, n) == IF n >= 0 THEN Take(s, n) ELSE Take(s, Max(Len(s) + n, 0))

RECURSIVE Pow(_, _)
Pow(b, e) == IF e = 0 THEN 1 ELSE b * Pow(b, e - 1)

-----------------------------------------------------------------------------
(* utils.retry_with_backoff                                                *)
(* An invocation of func has one of three outcomes:                        *)
(*   "ok"    it returns a value                                            *)
(*   "fail"  it raises an exception matched by `exceptions` (the default   *)
(*           (Exception,) matches every ordinary error)                    *)
(*   "abort" it raises something `exceptions` does not match (with the     *)
(*           default: a BaseException such as CancelledError)              *)
(* The exception raised by the k-th invocation is identified by k.         *)

NoCall == [op |-> "none"]

TranslatorIdle ==
    /\ provider = "none"
    /\ source_lang = "auto"
    /\ cache = <<>>
    /\ call = NoCall

ItemsIdle ==
    /\ items = <<>>
    /\ items0 = <<>>
    /\ tti = NoCall

CliIdle ==
    /\ cli_pc = "idle"
    /\ cli_args = [enums_valid |-> TRUE, translation_provider |-> "free",
                   simple_list |-> FALSE, translate_to |-> "none"]
    /\ cli_params = [translation_target |-> "none", translation_provider |-> "none"]
    /\ cli_scrape = "none"
    /\ cli_trends = 0
    /\ cli_output = "none"
    /\ cli_report = [written |-> "none"]
    /\ cli_code = -1

ExtractIdle ==
    /\ row_text = <<>>
    /\ single_trend = [op |-> "none"]
    /\ prt = [op |-> "none"]

ExportIdle ==
    /\ exp_trends = <<>>
    /\ exp_format = "json"
    /\ exp_io = "ok"
    /\ exp_result = "none"
    /\ exp_file = [written |-> FALSE]

VolumeIdle ==
    /\ volume_text = <<>>
    /\ psv = <<>>

\* The subsystems added after the first six.
FilterIdle ==
    /\ fparams = [geo |-> <<>>, time_window |-> "past_24_hours", category |-> "all",
                  active_only |-> FALSE, sort |-> "relevance"]
    /\ filter_pc = "idle"
    /\ setters = <<>>
    /\ clicks = <<>>

MoreIdle == VolumeIdle /\ FilterIdle

LaterIdle == CliIdle /\ ExtractIdle /\ ExportIdle /\ MoreIdle

RunIdle ==
    /\ run_pc = "idle"
    /\ run_params = [geo |-> "Vietnam", translation_target |-> "none",
                     translation_provider |-> "free", gpt_api_key |-> "none"]
    /\ env = {}
    /\ browser = "none"
    /\ context = "none"
    /\ page = "none"
    /\ translation_step = "none"
    /\ run_result = [kind |-> "none"]
    /\ close_log = <<>>

ScrapeIdle ==
    /\ params = [export_mode |-> "scrape", limit |-> 0, max_retries |-> 0]
    /\ params0 = params
    /\ pc = "idle"
    /\ trends = <<>>
    /\ page_index = 0
    /\ original_mode = "none"
    /\ in_fallback = FALSE
    /\ fallback_from = "none"
    /\ fallback_runs = 0
    /\ extracted = <<>>
    /\ seen = <<>>
    /\ scrape_result = [kind |-> "none"]

RetryIdle ==
    /\ max_retries = 0
    /\ initial_delay = 0
    /\ backoff_factor = 0
    /\ attempt = 0
    /\ delay = 0
    /\ last_exception = 0
    /\ retry_pc = "idle"
    /\ calls = 0
    /\ outcomes = <<>>
    /\ sleeps = <<>>
    /\ retry_result = [kind |-> "none"]

\* Entry of retry_with_backoff: delay = initial_delay; last_exception = None
RetryEnter(mr, idl, bf) ==
    /\ max_retries' = mr
    /\ initial_delay' = idl
    /\ backoff_factor' = bf
    /\ attempt' = 0
    /\ delay' = idl
    /\ last_exception' = 0
    /\ retry_pc' = "loop"
    /\ calls' = 0
    /\ outcomes' = <<>>
    /\ sleeps' = <<>>
    /\ retry_result' = [kind |-> "none"]

\* The loop "for attempt in range(max_retries + 1)" has another iteration.
RetryInLoop == retry_pc = "loop" /\ attempt <= max_retries

\* try: return func(...)   -- the invocation returns
RetryAttemptOk ==
    /\ RetryInLoop
    /\ calls' = calls + 1
    /\ outcomes' = Append(outcomes, "ok")
    /\ retry_pc' = "returned"
    /\ retry_result' = [kind |-> "value", of |-> calls + 1]
    /\ UNCHANGED <<max_retries, initial_delay, backoff_factor, attempt, delay,
                   last_exception, sleeps>>
    /\ UNCHANGED notRetry

\* Mutant: the sleep is taken after the last failed attempt as well
\* (the test "attempt < max_retries" dropped).
RetryAttemptFail_SleepAlways ==
    /\ RetryInLoop
    /\ calls' = calls + 1
    /\ outcomes' = Append(outcomes, "fail")
    /\ last_exception' = calls + 1
    /\ sleeps' = Append(sleeps, delay)
    /\ delay' = delay * backoff_factor
    /\ attempt' = attempt + 1
    /\ UNCHANGED <<max_retries, initial_delay, backoff_factor, retry_pc, retry_result>>
    /\ UNCHANGED notRetry

\* Mutant: one attempt too many (the failed attempt does not advance the loop
\* when it was the last one).
RetryAttemptFail_ExtraAttempt ==
    /\ RetryInLoop
    /\ calls' = calls + 1
    /\ outcomes' = Append(outcomes, "fail")
    /\ last_exception' = calls + 1
    /\ IF attempt < max_retries
         THEN /\ sleeps' = Append(sleeps, delay)
              /\ delay' = delay * backoff_factor
              /\ attempt' = attempt + 1
         ELSE /\ UNCHANGED <<sleeps, delay>>
              /\ attempt' = IF calls + 1 <= max_retries + 1 THEN attempt ELSE attempt + 1
    /\ UNCHANGED <<max_retries, initial_delay, backoff_factor, retry_pc, retry_result>>
    /\ UNCHANGED notRetry

\* except exceptions as e: last_exception = e; sleep and grow the delay if
\* another attempt follows; then the next iteration.
RetryAttemptFail ==
    /\ RetryInLoop
    /\ calls' = calls + 1
    /\ outcomes' = Append(outcomes, "fail")
    /\ last_exception' = calls + 1
    /\ IF attempt < max_retries
         THEN /\ sleeps' = Append(sleeps, delay)
              /\ delay' = delay * backoff_factor
         ELSE UNCHANGED <<sleeps, delay>>
    /\ attempt' = attempt + 1
    /\ UNCHANGED <<max_retries, initial_delay, backoff_factor, retry_pc, retry_result>>
    /\ UNCHANGED notRetry

\* The invocation raises an exception that `exceptions` does not match: it
\* leaves retry_with_backoff at once.
RetryAttemptAbort ==
    /\ RetryInLoop
    /\ calls' = calls + 1
    /\ outcomes' = Append(outcomes, "abort")
    /\ retry_pc' = "raised"
    /\ retry_result' = [kind |-> "exception", of |-> calls + 1]
    /\ UNCHANGED <<max_retries, initial_delay, backoff_factor, attempt, delay,
                   last_exception, sleeps>>
    /\ UNCHANGED notRetry

\* Mutant: the first exception is re-raised instead of the last one.
RetryExhausted_FirstException ==
    /\ retry_pc = "loop"
    /\ attempt > max_retries
    /\ retry_pc' = "raised"
    /\ retry_result' = IF last_exception = 0
                         THEN [kind |-> "TypeError"]
                         ELSE [kind |-> "exception", of |-> 1]
    /\ UNCHANGED <<max_retries, initial_delay, backoff_factor, attempt, delay,
                   last_exception, calls, outcomes, sleeps>>
    /\ UNCHANGED notRetry

\* The loop is over: raise last_exception.  When the loop body never ran
\* (max_retries < 0) last_exception is None and "raise None" is a TypeError.
RetryExhausted ==
    /\ retry_pc = "loop"
    /\ attempt > max_retries
    /\ retry_pc' = "raised"
    /\ retry_result' = IF last_exception = 0
                         THEN [kind |-> "TypeError"]
                         ELSE [kind |-> "exception", of |-> last_exception]
    /\ UNCHANGED <<max_retries, initial_delay, backoff_factor, attempt, delay,
                   last_exception, calls, outcomes, sleeps>>
    /\ UNCHANGED notRetry

RetryStep ==
    \/ RetryAttemptOk
    \/ RetryAttemptFail
    \/ RetryAttemptAbort
    \/ RetryExhausted

InitRetry ==
    \E mr \in -1 .. MaxRetries, idl \in 1 .. MaxInitialDelay, bf \in 1 .. MaxBackoff :
        /\ max_retries = mr
        /\ initial_delay = idl
        /\ backoff_factor = bf
        /\ attempt = 0
        /\ delay = idl
        /\ last_exception = 0
        /\ retry_pc = "loop"
        /\ calls = 0
        /\ outcomes = <<>>
        /\ sleeps = <<>>
        /\ retry_result = [kind |-> "none"]
        /\ ScrapeIdle
        /\ TranslatorIdle
        /\ ItemsIdle
        /\ RunIdle
        /\ LaterIdle

NextRetry == RetryStep

SpecRetry == InitRetry /\ [][NextRetry]_vars

-----------------------------------------------------------------------------
(* Claims about retry_with_backoff *)

AllFail(s) == \A i \in 1 .. Len(s) : s[i] = "fail"

\* C1: for max_retries >= 0, retry_with_backoff invokes the callable at most
\* max_retries + 1 times; a successful invocation is the last one and its
\* value is what is returned; an exception leaving retry_with_backoff is the
\* exception of the last invocation, and when every attempt failed there
\* were exactly max_retries + 1 invocations.  In particular fail, fail, ok
\* with max_retries = 3 is exactly 3 invocations, and always failing with
\* max_retries = 1 is exactly 2 invocations.
C1_RetryAttempts ==
    max_retries >= 0 =>
        /\ calls = Len(outcomes)
        /\ calls <= max_retries + 1
        /\ \A i \in 1 .. Len(outcomes) :
               outcomes[i] = "ok" =>
                   /\ i = Len(outcomes)
                   /\ retry_pc = "returned"
                   /\ retry_result = [kind |-> "value", of |-> i]
        /\ retry_pc = "returned" =>
               /\ calls >= 1
               /\ outcomes[calls] = "ok"
               /\ AllFail(SubSeq(outcomes, 1, calls - 1))
        /\ retry_pc = "raised" =>
               /\ calls >= 1
               /\ retry_result = [kind |-> "exception", of |-> calls]
               /\ outcomes[calls] \in {"fail", "abort"}
               /\ AllFail(outcomes) => calls = max_retries + 1
        /\ (max_retries = 3 /\ outcomes = <<"fail", "fail", "ok">>) =>
               (retry_pc = "returned" /\ calls = 3)
        /\ (max_retries = 1 /\ retry_pc = "raised" /\ AllFail(outcomes)) =>
               (calls = 2 /\ retry_result = [kind |-> "exception", of |-> 2])

\* Witness of C1: fail, fail, ok under max_retries = 3 has returned.
C1_Witness ==
    /\ max_retries = 3
    /\ outcomes = <<"fail", "fail", "ok">>
    /\ retry_pc = "returned"

-----------------------------------------------------------------------------
(* GoogleTrendsScraper.scrape_trends, its export modes and the DOM fallback *)
(* The browser is started (self.page is set).  Page interactions are       *)
(* inputs: each is drawn from the outcomes Playwright can produce.         *)
(* Exceptions below are ordinary ones (subclasses of Exception).           *)

ExportModes == {"scrape", "export_csv", "export_rss"}

\* A TrendItem built by _extract_single_trend: row `row` of page `p`.
\* source keeps the model's default, "scrape".
\* Its title passed the test of _extract_single_trend (ExtractSingleTrend).
DomItem(p, row) == [page_index |-> p, row |-> row, source |-> "scrape", title |-> <<"A", "b">>]

\* The title columns a downloaded CSV can carry.
CsvColumns == {"Title", "Query", "neither"}

\* "title = str(row.get('Title', row.get('Query', '')))": the cell of the
\* Title column, else of the Query column, else the empty string.
CsvTitle(cols) == IF cols = "neither" THEN <<>> ELSE <<"Q", "x">>

\* A TrendItem built by map_csv_to_trends from the row-th usable CSV row.
CsvItem(cols, row) == [page_index |-> 1, row |-> row, source |-> "export_csv", title |-> CsvTitle(cols)]

\* _extract_page_trends: the items of the n rows that yield a trend, in row
\* order (rows that fail or are skipped yield nothing and never raise).
ExtractPageTrends(p, n) == [r \in 1 .. n |-> DomItem(p, r)]

\* map_csv_to_trends: one item per usable row, in row order; a bad row is
\* skipped and an unreadable file gives [].
MapCsvToTrends(cols, n) == [r \in 1 .. n |-> CsvItem(cols, r)]

\* Mutant: the limit never ends the loop.
LimitReached_Never(ts, limit) == FALSE

\* "self.params.limit and len(trends) >= self.params.limit"
LimitReached(ts, limit) == limit # 0 /\ Len(ts) >= limit

\* Mutant: the list is not cut to the limit.
Truncate_Never(ts, limit) == ts

\* "if self.params.limit: trends = trends[:self.params.limit]"
Truncate(ts, limit) == IF limit # 0 THEN PySliceTo(ts, limit) ELSE ts

\* Mutant: the original mode is not put back.
FallbackFinally_Forget(p) == p

\* finally: self.params.export_mode = original_mode
FallbackFinally(p) == [p EXCEPT !.export_mode = original_mode]

\* Mutant: a CSV that was downloaded is ignored.
CsvUsable_Never(path) == FALSE

\* "if not csv_path" is false: wait_for_download gave a file path.
CsvUsable(path) == path = "file"

\* Control moves on inside the same function.
Goto(l) ==
    /\ pc' = l
    /\ UNCHANGED <<params, original_mode, in_fallback, fallback_from,
                   fallback_runs, scrape_result, retryVars>>

\* Call of _fallback_to_dom_scraping up to its first await: the mode is saved
\* and forced to scrape, then _navigate_to_trending_page calls
\* retry_with_backoff(self.page.goto, max_retries=self.params.max_retries).
FallbackEnter(from) ==
    /\ original_mode' = params.export_mode
    /\ params' = [params EXCEPT !.export_mode = "scrape"]
    /\ in_fallback' = TRUE
    /\ fallback_from' = from
    /\ fallback_runs' = fallback_runs + 1
    /\ pc' = "nav"
    /\ RetryEnter(params.max_retries, DefaultInitialDelay, DefaultBackoffFactor)
    /\ UNCHANGED scrape_result

\* An exception raised by navigation or by _apply_filters propagates.
\* Inside the fallback the finally clause runs first.  An ordinary exception
\* (a subclass of Exception) of a fallback called inside the export mode's
\* try block is then caught by that mode's "except Exception"; any other
\* lands in scrape_trends' own handler, which re-raises.  An exception that
\* is no subclass of Exception (retry outcome "abort") is caught by neither.
Raise(origin, ordinary) ==
    /\ IF in_fallback
         THEN /\ params' = FallbackFinally(params)
              /\ in_fallback' = FALSE
              /\ IF fallback_from = "try" /\ ordinary
                   THEN /\ pc' = "export_except"
                        /\ UNCHANGED scrape_result
                   ELSE /\ pc' = "raised"
                        /\ scrape_result' = [kind |-> "exception", origin |-> origin,
                                             within |-> "fallback"]
         ELSE /\ pc' = "raised"
              /\ scrape_result' = [kind |-> "exception", origin |-> origin,
                                   within |-> "main"]
              /\ UNCHANGED <<params, in_fallback>>
    /\ UNCHANGED <<original_mode, fallback_from, fallback_runs, retryVars>>

\* scrape_trends returns the list ts (from its own loop or from CSV).
ReturnFromScrape(ts, from) ==
    /\ pc' = "returned"
    /\ scrape_result' = [kind |-> "list", items |-> ts, from |-> from]
    /\ UNCHANGED <<params, original_mode, in_fallback, fallback_from,
                   fallback_runs, retryVars>>

\* _fallback_to_dom_scraping returns ts: the finally clause runs and every
\* caller passes the list on unchanged ("return await self._fallback...").
ReturnFromFallback(ts) ==
    /\ pc' = "returned"
    /\ scrape_result' = [kind |-> "list", items |-> ts, from |-> "dom_fallback"]
    /\ params' = FallbackFinally(params)
    /\ in_fallback' = FALSE
    /\ UNCHANGED <<original_mode, fallback_from, fallback_runs, retryVars>>

\* scrape_trends up to the first await of _navigate_to_trending_page.
ScrapeStart ==
    /\ pc = "start"
    /\ pc' = "nav"
    /\ RetryEnter(params.max_retries, DefaultInitialDelay, DefaultBackoffFactor)
    /\ UNCHANGED <<params, params0, trends, page_index, original_mode, in_fallback,
                   fallback_from, fallback_runs, extracted, seen, scrape_result>>
    /\ UNCHANGED notScrape

\* retry_with_backoff returned: the page is loaded.
NavigateReturned ==
    /\ pc = "nav"
    /\ retry_pc = "returned"
    /\ Goto("filters")
    /\ UNCHANGED <<params0, trends, page_index, extracted, seen>>
    /\ UNCHANGED notScrape

\* retry_with_backoff raised.
NavigateRaised ==
    /\ pc = "nav"
    /\ retry_pc = "raised"
    /\ Raise("navigation", outcomes = <<>> \/ outcomes[Len(outcomes)] # "abort")
    /\ UNCHANGED <<params0, trends, page_index, extracted, seen>>
    /\ UNCHANGED notScrape

\* _apply_filters returns (a setter that fails only logs).  In scrape_trends
\* the export mode is then dispatched on; in the fallback the loop starts.
ApplyFiltersReturned ==
    /\ pc = "filters"
    /\ IF in_fallback
         THEN Goto("fb_extract")
         ELSE IF params.export_mode = "export_csv"
                THEN Goto("csv_export")
                ELSE IF params.export_mode = "export_rss"
                       THEN Goto("rss_export")
                       ELSE Goto("dom_extract")
    /\ trends' = <<>>
    /\ page_index' = 1
    /\ UNCHANGED <<params0, extracted, seen>>
    /\ UNCHANGED notScrape

\* _apply_filters raises (wait_for_selector timed out): it re-raises.
ApplyFiltersRaised ==
    /\ pc = "filters"
    /\ Raise("filters", TRUE)
    /\ UNCHANGED <<params0, trends, page_index, extracted, seen>>
    /\ UNCHANGED notScrape

\* scrape_trends' loop: wait, extract the page, extend trends, and test the
\* limit (the first operand of the "or").
ScrapeExtractPage ==
    /\ pc = "dom_extract"
    /\ \E n \in 0 .. MaxRows :
         LET all == trends \o ExtractPageTrends(page_index, n) IN
           /\ trends' = all
           /\ extracted' = all
           /\ IF LimitReached(all, params.limit)
                THEN ReturnFromScrape(Truncate(all, params.limit), "dom")
                ELSE Goto("dom_next")
    /\ UNCHANGED <<params0, page_index, seen>>
    /\ UNCHANGED notScrape

\* scrape_trends' loop: "not await self._go_to_next_page()".  The control
\* is clicked, is missing or disabled, or the interaction raises (caught in
\* _go_to_next_page, which then returns False).
ScrapeNextPage ==
    /\ pc = "dom_next"
    /\ \E next \in {"clicked", "none", "error"} :
         /\ next = "clicked" => page_index < MaxPages
         /\ IF next = "clicked"
              THEN /\ page_index' = page_index + 1
                   /\ Goto("dom_extract")
              ELSE /\ UNCHANGED page_index
                   /\ ReturnFromScrape(Truncate(trends, params.limit), "dom")
    /\ UNCHANGED <<params0, trends, extracted, seen>>
    /\ UNCHANGED notScrape

\* The same loop inside _fallback_to_dom_scraping.
FallbackExtractPage ==
    /\ pc = "fb_extract"
    /\ \E n \in 0 .. MaxRows :
         LET all == trends \o ExtractPageTrends(page_index, n) IN
           /\ trends' = all
           /\ extracted' = all
           /\ IF LimitReached(all, params.limit)
                THEN ReturnFromFallback(Truncate(all, params.limit))
                ELSE Goto("fb_next")
    /\ UNCHANGED <<params0, page_index, seen>>
    /\ UNCHANGED notScrape

FallbackNextPage ==
    /\ pc = "fb_next"
    /\ \E next \in {"clicked", "none", "error"} :
         /\ next = "clicked" => page_index < MaxPages
         /\ IF next = "clicked"
              THEN /\ page_index' = page_index + 1
                   /\ Goto("fb_extract")
              ELSE /\ UNCHANGED page_index
                   /\ ReturnFromFallback(Truncate(trends, params.limit))
    /\ UNCHANGED <<params0, trends, extracted, seen>>
    /\ UNCHANGED notScrape

\* _export_csv_mode: the Export control.
CsvExportButton ==
    /\ pc = "csv_export"
    /\ \E o \in {"visible", "hidden", "is_visible_raised", "click_raised"} :
         /\ seen' = Append(seen, <<"export", o>>)
         /\ IF o = "visible" THEN Goto("csv_option")
            ELSE IF o = "hidden" THEN FallbackEnter("try")
            ELSE Goto("export_except")
    /\ UNCHANGED <<params0, trends, page_index, extracted>>
    /\ UNCHANGED notScrape

\* _export_csv_mode: the Download CSV control.
CsvOption ==
    /\ pc = "csv_option"
    /\ \E o \in {"visible", "hidden", "is_visible_raised"} :
         /\ seen' = Append(seen, <<"option", o>>)
         /\ IF o = "visible" THEN Goto("csv_download")
            ELSE IF o = "hidden" THEN FallbackEnter("try")
            ELSE Goto("export_except")
    /\ UNCHANGED <<params0, trends, page_index, extracted>>
    /\ UNCHANGED notScrape

\* _export_csv_mode: DownloadHandler.wait_for_download gives the file path,
\* or None when the click or the download failed or timed out (it catches
\* every exception); a file is handed to map_csv_to_trends.
CsvDownload ==
    /\ pc = "csv_download"
    /\ \E path \in {"file", "none"} :
         /\ seen' = Append(seen, <<"download", path>>)
         /\ IF CsvUsable(path)
              THEN \E n \in 0 .. MaxCsvRows, cols \in CsvColumns :
                     ReturnFromScrape(MapCsvToTrends(cols, n), "csv")
              ELSE FallbackEnter("try")
    /\ UNCHANGED <<params0, trends, page_index, extracted>>
    /\ UNCHANGED notScrape

\* _export_rss_mode: the Export control.
RssExportButton ==
    /\ pc = "rss_export"
    /\ \E o \in {"visible", "hidden", "is_visible_raised", "click_raised"} :
         /\ seen' = Append(seen, <<"export", o>>)
         /\ IF o = "visible" THEN Goto("rss_option")
            ELSE IF o = "hidden" THEN FallbackEnter("try")
            ELSE Goto("export_except")
    /\ UNCHANGED <<params0, trends, page_index, extracted>>
    /\ UNCHANGED notScrape

\* _export_rss_mode: the RSS control.
RssOption ==
    /\ pc = "rss_option"
    /\ \E o \in {"visible", "hidden", "is_visible_raised"} :
         /\ seen' = Append(seen, <<"option", o>>)
         /\ IF o = "visible" THEN Goto("rss_href")
            ELSE IF o = "hidden" THEN FallbackEnter("try")
            ELSE Goto("export_except")
    /\ UNCHANGED <<params0, trends, page_index, extracted>>
    /\ UNCHANGED notScrape

\* Mutant: a link that was obtained is "parsed" and its (empty) feed returned.
RssHref_ParseFeed ==
    /\ pc = "rss_href"
    /\ \E o \in {"url", "empty", "raised"} :
         /\ seen' = Append(seen, <<"href", o>>)
         /\ IF o = "raised" THEN Goto("export_except")
            ELSE IF o = "url" THEN ReturnFromScrape(<<>>, "rss")
            ELSE FallbackEnter("try")
    /\ UNCHANGED <<params0, trends, page_index, extracted>>
    /\ UNCHANGED notScrape

\* _export_rss_mode: the link target.  With or without a URL the mode falls
\* back (RSS parsing is not implemented).
RssHref ==
    /\ pc = "rss_href"
    /\ \E o \in {"url", "empty", "raised"} :
         /\ seen' = Append(seen, <<"href", o>>)
         /\ IF o = "raised" THEN Goto("export_except") ELSE FallbackEnter("try")
    /\ UNCHANGED <<params0, trends, page_index, extracted>>
    /\ UNCHANGED notScrape

\* "except Exception" of _export_csv_mode and of _export_rss_mode:
\* return await self._fallback_to_dom_scraping()
ExportExcept ==
    /\ pc = "export_except"
    /\ seen' = Append(seen, <<"except", "fallback">>)
    /\ FallbackEnter("handler")
    /\ UNCHANGED <<params0, trends, page_index, extracted>>
    /\ UNCHANGED notScrape

InitScrape ==
    /\ RetryIdle
    /\ TranslatorIdle
    /\ ItemsIdle
    /\ RunIdle
    /\ LaterIdle
    /\ \E em \in ExportModes, lim \in -1 .. MaxLimit, mr \in -1 .. MaxNavRetries :
         params = [export_mode |-> em, limit |-> lim, max_retries |-> mr]
    /\ params0 = params
    /\ pc = "start"
    /\ trends = <<>>
    /\ page_index = 0
    /\ original_mode = "none"
    /\ in_fallback = FALSE
    /\ fallback_from = "none"
    /\ fallback_runs = 0
    /\ extracted = <<>>
    /\ seen = <<>>
    /\ scrape_result = [kind |-> "none"]

NextScrape ==
    \/ ScrapeStart
    \/ (pc = "nav" /\ RetryAttemptOk)
    \/ (pc = "nav" /\ RetryAttemptFail)
    \/ (pc = "nav" /\ RetryAttemptAbort)
    \/ (pc = "nav" /\ RetryExhausted)
    \/ NavigateReturned
    \/ NavigateRaised
    \/ ApplyFiltersReturned
    \/ ApplyFiltersRaised
    \/ ScrapeExtractPage
    \/ ScrapeNextPage
    \/ FallbackExtractPage
    \/ FallbackNextPage
    \/ CsvExportButton
    \/ CsvOption
    \/ CsvDownload
    \/ RssExportButton
    \/ RssOption
    \/ RssHref
    \/ ExportExcept

SpecScrape == InitScrape /\ [][NextScrape]_vars

-----------------------------------------------------------------------------
(* Claims about scrape_trends *)

Finished == pc \in {"returned", "raised"}

Returned == scrape_result.kind = "list"

\* Items are in page order, then row order.
InPageRowOrder(ts) ==
    \A i, j \in 1 .. Len(ts) :
        i < j => \/ ts[i].page_index < ts[j].page_index
                 \/ /\ ts[i].page_index = ts[j].page_index
                    /\ ts[i].row < ts[j].row

\* The three observations under which _export_csv_mode reaches the CSV.
CsvPathSeen ==
    <<(<<"export", "visible">>), (<<"option", "visible">>), (<<"download", "file">>)>>

\* C2: the scraper changes no field of params but export_mode; export_mode
\* differs from its value at the call only while the fallback is running,
\* where it is "scrape"; once the fallback has finished, by returning or by
\* raising, params is what it was when scrape_trends was called.
C2_ExportModeRestored ==
    /\ params.limit = params0.limit
    /\ params.max_retries = params0.max_retries
    /\ in_fallback => params.export_mode = "scrape"
    /\ ~in_fallback => params = params0
    /\ Finished => ~in_fallback

\* Witness of C2: a fallback from RSS mode has raised and the mode is back.
C2_Witness ==
    /\ pc = "raised"
    /\ scrape_result.kind = "exception"
    /\ scrape_result.within = "fallback"
    /\ params0.export_mode = "export_rss"
    /\ params.export_mode = "export_rss"

\* C3: with a positive limit, the list a DOM loop returns (scrape mode or
\* fallback) is exactly the first min(limit, n) of the n items extracted,
\* which are in page order then row order.
C3_LimitPrefix ==
    (Returned /\ scrape_result.from \in {"dom", "dom_fallback"} /\ params0.limit > 0) =>
        /\ Len(scrape_result.items) = Min(params0.limit, Len(extracted))
        /\ \A i \in 1 .. Len(scrape_result.items) : scrape_result.items[i] = extracted[i]
        /\ InPageRowOrder(extracted)

\* Witness of C3: three items over two pages were extracted in the fallback
\* and the limit 2 cut the list.
C3_Witness ==
    /\ Returned
    /\ scrape_result.from = "dom_fallback"
    /\ params0.limit = 2
    /\ Len(extracted) = 3
    /\ extracted[3].page_index = 2
    /\ Len(scrape_result.items) = 2

\* C4: with a limit set, a successful CSV export returns at most limit items.
C4_CsvBoundedByLimit ==
    (Returned /\ scrape_result.from = "csv" /\ params0.limit > 0) =>
        Len(scrape_result.items) <= params0.limit

\* C5: in export_rss mode no execution reaches the CSV steps or scrape_trends'
\* own loop; every execution that got as far as the Export control and has
\* finished went through the DOM fallback; and a returned list is the
\* fallback's: DOM-extracted items only.
C5_RssAlwaysFallsBack ==
    params0.export_mode = "export_rss" =>
        /\ pc \notin {"csv_export", "csv_option", "csv_download", "dom_extract", "dom_next"}
        /\ (Finished /\ seen # <<>>) => fallback_runs >= 1
        /\ Returned =>
              /\ scrape_result.from = "dom_fallback"
              /\ fallback_runs >= 1
              /\ scrape_result.items = Truncate(extracted, params0.limit)
              /\ \A i \in 1 .. Len(scrape_result.items) :
                     scrape_result.items[i].source = "scrape"

\* Witness of C5: the RSS link was obtained and the run still returned
\* DOM-extracted items.
C5_Witness ==
    /\ params0.export_mode = "export_rss"
    /\ Returned
    /\ Len(seen) = 3
    /\ seen[3] = <<"href", "url">>
    /\ Len(scrape_result.items) > 0

\* No invocation of page.goto was ended by something other than an ordinary
\* exception (no cancellation).
NoAbort == \A i \in 1 .. Len(outcomes) : outcomes[i] # "abort"

-----------------------------------------------------------------------------
(* translator.py: texts, the cache, the two backends                       *)
(* A text is a sequence of characters.  The translation services are       *)
(* inputs: each call either raises or answers.                             *)

\* The texts tried: the empty string, a whitespace-only string, two words.
Texts == {<<>>, <<" ">>, <<"a">>, <<"b">>}

SourceLangs == {"auto", "ja"}

TargetLanguage == "zh"

\* Python's None where a text is expected.
None == <<"None">>

\* All sequences over S of length at most n.
SeqsUpTo(S, n) == UNION {[1 .. k -> S] : k \in 0 .. n}

\* str.strip(): leading and trailing whitespace removed.
RECURSIVE LStrip(_)
LStrip(t) == IF t # <<>> /\ Head(t) = " " THEN LStrip(Tail(t)) ELSE t

RECURSIVE RStrip(_)
RStrip(t) == IF t # <<>> /\ t[Len(t)] = " " THEN RStrip(SubSeq(t, 1, Len(t) - 1)) ELSE t

Strip(t) == RStrip(LStrip(t))

\* Mutant: only the empty string counts as blank.
IsBlank_EmptyOnly(t) == t = <<>>

\* "not text or not text.strip()"
IsBlank(t) == t = <<>> \/ Strip(t) = <<>>

\* What a translation service answers for text t (it differs from t).
Translation(t) == <<"z">> \o t

\* TranslatorBase._get_cache_key
CacheKey(t, lang) == <<lang, TargetLanguage, t>>

\* TranslatorBase._get_from_cache(...) is not None
Cached(c, t, lang) == CacheKey(t, lang) \in DOMAIN c

\* TranslatorBase._get_from_cache
GetFromCache(c, t, lang) == c[CacheKey(t, lang)]

\* Mutant: storing a translation drops the entries stored before.
AddToCache_Only(c, t, translation, lang) == [k \in {CacheKey(t, lang)} |-> translation]

\* TranslatorBase._add_to_cache: self._cache[key] = translation
AddToCache(c, t, translation, lang) ==
    [k \in DOMAIN c \cup {CacheKey(t, lang)} |->
        IF k = CacheKey(t, lang) THEN translation ELSE c[k]]

\* The first loop of translate_batch (both backends): indices_to_translate,
\* the positions that are neither blank nor cached, in input order.
RECURSIVE IndicesToTranslate(_, _, _, _)
IndicesToTranslate(texts, lang, c, i) ==
    IF i > Len(texts) THEN <<>>
    ELSE IF ~IsBlank(texts[i]) /\ ~Cached(c, texts[i], lang)
           THEN <<i>> \o IndicesToTranslate(texts, lang, c, i + 1)
           ELSE IndicesToTranslate(texts, lang, c, i + 1)

\* The first loop of translate_batch: translations, with the None
\* placeholders at the positions to translate.
Placeholders(texts, lang, c) ==
    [i \in 1 .. Len(texts) |->
        IF IsBlank(texts[i]) THEN texts[i]
        ELSE IF Cached(c, texts[i], lang) THEN GetFromCache(c, texts[i], lang)
        ELSE None]

\* texts_to_translate
TextsToTranslate(texts, idx) == [k \in 1 .. Len(idx) |-> texts[idx[k]]]

\* Mutant: the results are written to consecutive positions from the start
\* of the list instead of their original positions.
RECURSIVE FillFromBatch_Compact(_, _, _, _)
FillFromBatch_Compact(translations, idx, batch, k) ==
    IF k > Min(Len(idx), Len(batch)) THEN translations
    ELSE FillFromBatch_Compact([translations EXCEPT ![k] = batch[k]], idx, batch, k + 1)

\* "for idx, translation in zip(indices_to_translate, batch_translations):
\*      translations[idx] = translation" (zip stops at the shorter list)
RECURSIVE FillFromBatch(_, _, _, _)
FillFromBatch(translations, idx, batch, k) ==
    IF k > Min(Len(idx), Len(batch)) THEN translations
    ELSE FillFromBatch([translations EXCEPT ![idx[k]] = batch[k]], idx, batch, k + 1)

\* "... self._add_to_cache(texts[idx], translation, source_lang)" of the
\* same loop
RECURSIVE CacheFromBatch(_, _, _, _, _, _)
CacheFromBatch(c, texts, idx, batch, lang, k) ==
    IF k > Min(Len(idx), Len(batch)) THEN c
    ELSE CacheFromBatch(AddToCache(c, texts[idx[k]], batch[k], lang),
                        texts, idx, batch, lang, k + 1)

\* "for idx in indices_to_translate: translations[idx] = texts[idx]"
FillWithOriginals(translations, texts, idx) ==
    [i \in 1 .. Len(texts) |->
        IF \E k \in 1 .. Len(idx) : idx[k] = i THEN texts[i] ELSE translations[i]]

\* What a call leaves behind: the result, the cache, the lists of texts sent
\* to the translation service (one per service call), and whether the
\* service call failed (the failure is caught inside the call).
Outcome(out, c, sent, failed) ==
    [out |-> out, cache |-> c, sent |-> sent, failed |-> failed]

(* ---- FreeTranslator ---- *)

\* Answers of the free service to one call.
FreeResponses == {"ok", "raise"}

\* GoogleTranslator.translate_batch: one translation per text.
FreeBatchAnswer(texts) == [k \in 1 .. Len(texts) |-> Translation(texts[k])]

\* FreeTranslator.translate
FreeTranslate(text, lang, c, resp) ==
    IF IsBlank(text) THEN Outcome(text, c, <<>>, FALSE)
    ELSE IF Cached(c, text, lang) THEN Outcome(GetFromCache(c, text, lang), c, <<>>, FALSE)
    ELSE IF resp = "raise" THEN Outcome(text, c, <<(<<text>>)>>, TRUE)
    ELSE Outcome(Translation(text), AddToCache(c, text, Translation(text), lang),
                 <<(<<text>>)>>, FALSE)

\* FreeTranslator.translate_batch
FreeTranslateBatch(texts, lang, c, resp) ==
    IF texts = <<>> THEN Outcome(<<>>, c, <<>>, FALSE)
    ELSE
      LET idx == IndicesToTranslate(texts, lang, c, 1)
          translations == Placeholders(texts, lang, c)
          todo == TextsToTranslate(texts, idx)
      IN IF todo = <<>> THEN Outcome(translations, c, <<>>, FALSE)
         ELSE IF resp = "raise"
                THEN Outcome(FillWithOriginals(translations, texts, idx), c, <<todo>>, TRUE)
                ELSE Outcome(FillFromBatch(translations, idx, FreeBatchAnswer(todo), 1),
                             CacheFromBatch(c, texts, idx, FreeBatchAnswer(todo), lang, 1),
                             <<todo>>, FALSE)

(* ---- GPTTranslator ---- *)

\* Answers of the chat-completion endpoint to a batch request: an error, or
\* a content whose |||-separated segments are the translations ("exact"),
\* lack the last one ("short"), have one more ("long"), or have a blank
\* segment in place of the first ("blank").
ChatResponses == {"raise", "exact", "short", "long", "blank"}

\* content.split("|||") for each answer.
ChatSegments(texts, resp) ==
    LET exact == [k \in 1 .. Len(texts) |-> Translation(texts[k])] IN
    IF resp = "exact" THEN exact
    ELSE IF resp = "short" THEN SubSeq(exact, 1, Len(exact) - 1)
    ELSE IF resp = "long" THEN Append(exact, <<"x">>)
    ELSE [k \in 1 .. Len(exact) |-> IF k = 1 THEN <<" ">> ELSE exact[k]]

\* "[t.strip() for t in translations if t.strip()]"
RECURSIVE NonBlankStripped(_)
NonBlankStripped(segs) ==
    IF segs = <<>> THEN <<>>
    ELSE IF Strip(Head(segs)) # <<>>
           THEN <<Strip(Head(segs))>> \o NonBlankStripped(Tail(segs))
           ELSE NonBlankStripped(Tail(segs))

\* Mutant: the padding repeats the first input text.
RECURSIVE PadWithOriginals_First(_, _)
PadWithOriginals_First(translations, texts) ==
    IF Len(translations) < Len(texts)
      THEN PadWithOriginals_First(Append(translations, texts[1]), texts)
      ELSE translations

\* "while len(translations) < len(texts):
\*      translations.append(texts[len(translations)])"
RECURSIVE PadWithOriginals(_, _)
PadWithOriginals(translations, texts) ==
    IF Len(translations) < Len(texts)
      THEN PadWithOriginals(Append(translations, texts[Len(translations) + 1]), texts)
      ELSE translations

\* The parsing at the end of _translate_trending_topics_batch.
ParseBatchContent(segs, texts) ==
    LET translations == NonBlankStripped(segs) IN
    IF Len(translations) # Len(texts)
      THEN Take(PadWithOriginals(translations, texts), Len(texts))
      ELSE translations

\* GPTTranslator._translate_trending_topics_batch: it has no handler, so an
\* error of the request (client.post, raise_for_status) leaves it.
TranslateTrendingTopicsBatch(texts, resp) ==
    IF resp = "raise" THEN [raised |-> TRUE, out |-> <<>>]
    ELSE [raised |-> FALSE, out |-> ParseBatchContent(ChatSegments(texts, resp), texts)]

\* Answers of the endpoint to a single-text request: an error, a
\* translation, a content that is empty once stripped.
ChatSingleResponses == {"raise", "exact", "empty"}

\* GPTTranslator.translate
GPTTranslate(text, lang, c, resp) ==
    IF IsBlank(text) THEN Outcome(text, c, <<>>, FALSE)
    ELSE IF Cached(c, text, lang) THEN Outcome(GetFromCache(c, text, lang), c, <<>>, FALSE)
    ELSE IF resp = "raise" THEN Outcome(text, c, <<(<<text>>)>>, TRUE)
    ELSE LET translation == IF resp = "exact" THEN Strip(Translation(text)) ELSE Strip(<<" ">>)
         IN IF translation # <<>>
              THEN Outcome(translation, AddToCache(c, text, translation, lang),
                           <<(<<text>>)>>, FALSE)
              ELSE Outcome(text, c, <<(<<text>>)>>, FALSE)

\* GPTTranslator.translate_batch
GPTTranslateBatch(texts, lang, c, resp) ==
    IF texts = <<>> THEN Outcome(<<>>, c, <<>>, FALSE)
    ELSE
      LET idx == IndicesToTranslate(texts, lang, c, 1)
          translations == Placeholders(texts, lang, c)
          todo == TextsToTranslate(texts, idx)
          answer == TranslateTrendingTopicsBatch(todo, resp)
      IN IF todo = <<>> THEN Outcome(translations, c, <<>>, FALSE)
         ELSE IF answer.raised
                THEN Outcome(FillWithOriginals(translations, texts, idx), c, <<todo>>, TRUE)
                ELSE Outcome(FillFromBatch(translations, idx, answer.out, 1),
                             CacheFromBatch(c, texts, idx, answer.out, lang, 1),
                             <<todo>>, FALSE)

(* ---- calls on one translator instance ---- *)

\* The record of a call: what was asked, what came back, what it did.
Call(op, texts, out, before, o) ==
    [op |-> op, texts |-> texts, out |-> out, sent |-> o.sent,
     failed |-> o.failed, before |-> before]

\* await translator.translate(text, source_lang) on a FreeTranslator
FreeTranslateCall ==
    /\ provider = "free"
    /\ \E text \in Texts, resp \in FreeResponses :
         LET o == FreeTranslate(text, source_lang, cache, resp) IN
           /\ cache' = o.cache
           /\ call' = Call("translate", <<text>>, <<o.out>>, cache, o)
    /\ UNCHANGED <<provider, source_lang>>
    /\ UNCHANGED notTranslator

\* await translator.translate_batch(texts, source_lang) on a FreeTranslator
FreeTranslateBatchCall ==
    /\ provider = "free"
    /\ \E texts \in SeqsUpTo(Texts, MaxBatch), resp \in FreeResponses :
         LET o == FreeTranslateBatch(texts, source_lang, cache, resp) IN
           /\ cache' = o.cache
           /\ call' = Call("translate_batch", texts, o.out, cache, o)
    /\ UNCHANGED <<provider, source_lang>>
    /\ UNCHANGED notTranslator

\* await translator.translate(text, source_lang) on a GPTTranslator
GPTTranslateCall ==
    /\ provider = "gpt"
    /\ \E text \in Texts, resp \in ChatSingleResponses :
         LET o == GPTTranslate(text, source_lang, cache, resp) IN
           /\ cache' = o.cache
           /\ call' = Call("translate", <<text>>, <<o.out>>, cache, o)
    /\ UNCHANGED <<provider, source_lang>>
    /\ UNCHANGED notTranslator

\* await translator.translate_batch(texts, source_lang) on a GPTTranslator
GPTTranslateBatchCall ==
    /\ provider = "gpt"
    /\ \E texts \in SeqsUpTo(Texts, MaxBatch), resp \in ChatResponses :
         LET o == GPTTranslateBatch(texts, source_lang, cache, resp) IN
           /\ cache' = o.cache
           /\ call' = Call("translate_batch", texts, o.out, cache, o)
    /\ UNCHANGED <<provider, source_lang>>
    /\ UNCHANGED notTranslator

\* The segments content.split("|||") can yield: empty, a word, a word
\* surrounded by whitespace.
ContentSegments == {<<>>, <<"x">>, <<" ", "y", " ">>}

\* The contents a chat completion can carry, as split gives them (split
\* yields at least one segment).
Contents == SeqsUpTo(ContentSegments, MaxSegments) \ {<<>>}

\* await translator._translate_trending_topics_batch(texts, source_lang, ...)
\* called directly on a fresh translator, as _translate_trends_with_context
\* does: the request raises, or the completion carries some content.  The
\* cache is not used.
TrendingTopicsBatchCall ==
    /\ provider = "gpt"
    /\ call = NoCall
    /\ \E texts \in SeqsUpTo(Texts, MaxBatch) :
         \/ call' = [op |-> "_translate_trending_topics_batch", texts |-> texts,
                     out |-> <<>>, sent |-> <<texts>>, failed |-> TRUE,
                     before |-> cache, segs |-> <<>>]
         \/ \E segs \in Contents :
              call' = [op |-> "_translate_trending_topics_batch", texts |-> texts,
                       out |-> ParseBatchContent(segs, texts), sent |-> <<texts>>,
                       failed |-> FALSE, before |-> cache, segs |-> segs]
    /\ UNCHANGED <<provider, source_lang, cache>>
    /\ UNCHANGED notTranslator

\* A translator was constructed (TranslatorBase.__init__: the cache is empty).
InitTranslator ==
    /\ RetryIdle
    /\ ScrapeIdle
    /\ ItemsIdle
    /\ RunIdle
    /\ LaterIdle
    /\ provider \in {"free", "gpt"}
    /\ source_lang \in SourceLangs
    /\ cache = <<>>
    /\ call = NoCall

NextTranslator ==
    \/ FreeTranslateCall
    \/ FreeTranslateBatchCall
    \/ GPTTranslateCall
    \/ GPTTranslateBatchCall

SpecTranslator == InitTranslator /\ [][NextTranslator]_vars

\* A GPTTranslator whose batch request method is called once.
InitTopicsBatch == InitTranslator /\ provider = "gpt"

NextTopicsBatch == TrendingTopicsBatchCall

SpecTopicsBatch == InitTopicsBatch /\ [][NextTopicsBatch]_vars

-----------------------------------------------------------------------------
(* Claims about the translator backends *)

\* A text that is empty or consists of whitespace only.
BlankText(t) == \A i \in 1 .. Len(t) : t[i] = " "

\* The key under which the instance caches text t.
KeyOf(t) == <<source_lang, TargetLanguage, t>>

\* Text t was in the cache when the last call started.
WasCached(t) == KeyOf(t) \in DOMAIN call.before

\* Position i of the last call was neither blank nor cached.
Pending(i) == ~BlankText(call.texts[i]) /\ ~WasCached(call.texts[i])

\* The texts of the pending positions, in input order.
PendingTexts == SelectSeq(call.texts, LAMBDA t : ~BlankText(t) /\ ~WasCached(t))

\* C9: translate and translate_batch of either backend return every empty
\* or whitespace-only text unchanged at its position, never cache such a
\* text, never send one to the translation service, and a call whose texts
\* are all blank makes no service call and leaves the cache as it was.
C9_BlankUntouched ==
    /\ \A k \in DOMAIN cache : ~BlankText(k[3])
    /\ call.op # "none" =>
          /\ Len(call.out) = Len(call.texts)
          /\ \A i \in 1 .. Len(call.texts) :
                 BlankText(call.texts[i]) => call.out[i] = call.texts[i]
          /\ \A k \in 1 .. Len(call.sent) : \A j \in 1 .. Len(call.sent[k]) :
                 ~BlankText(call.sent[k][j])
          /\ (\A i \in 1 .. Len(call.texts) : BlankText(call.texts[i])) =>
                 (call.sent = <<>> /\ cache = call.before)

\* Witness of C9: the chat backend's translate_batch got a whitespace-only
\* text and a word, echoed the first and sent only the word.
C9_Witness ==
    /\ provider = "gpt"
    /\ call.op = "translate_batch"
    /\ call.texts = <<(<<" ">>), (<<"a">>)>>
    /\ call.out[1] = <<" ">>
    /\ call.sent = <<(<<(<<"a">>)>>)>>

\* C10: FreeTranslator.translate_batch returns a list as long as its input;
\* a blank input is echoed, a cached one is answered from the cache, the
\* others go in input order into one service call (none when there are
\* none); when that call answers, each translation is at its input's
\* position and in the cache; when it raises, each pending position holds
\* its original text and the cache is unchanged.
C10_FreeBatchPositions ==
    (provider = "free" /\ call.op = "translate_batch") =>
        /\ Len(call.out) = Len(call.texts)
        /\ call.sent = IF PendingTexts = <<>> THEN <<>> ELSE <<PendingTexts>>
        /\ \A i \in 1 .. Len(call.texts) :
               /\ BlankText(call.texts[i]) => call.out[i] = call.texts[i]
               /\ (~BlankText(call.texts[i]) /\ WasCached(call.texts[i])) =>
                      call.out[i] = call.before[KeyOf(call.texts[i])]
               /\ (Pending(i) /\ call.failed) => call.out[i] = call.texts[i]
               /\ (Pending(i) /\ ~call.failed) =>
                      /\ call.out[i] = Translation(call.texts[i])
                      /\ KeyOf(call.texts[i]) \in DOMAIN cache
                      /\ cache[KeyOf(call.texts[i])] = call.out[i]
        /\ call.failed => cache = call.before
        /\ \A k \in DOMAIN call.before : k \in DOMAIN cache /\ cache[k] = call.before[k]
        /\ \A k \in DOMAIN cache \ DOMAIN call.before :
               \E i \in 1 .. Len(call.texts) : Pending(i) /\ k = KeyOf(call.texts[i])

\* Witness of C10: a batch of a cached text followed by a new one; only the
\* new one was sent and its translation is at position 2.
C10_Witness ==
    /\ provider = "free"
    /\ call.op = "translate_batch"
    /\ Len(call.texts) = 2
    /\ ~BlankText(call.texts[1]) /\ WasCached(call.texts[1])
    /\ Pending(2)
    /\ call.sent = <<(<<call.texts[2]>>)>>
    /\ call.out = <<call.before[KeyOf(call.texts[1])], Translation(call.texts[2])>>

\* The segment of the last completion at position k is not blank.
KeptSegment(k) == ~BlankText(call.segs[k])

\* The position in the completion of the i-th non-blank segment.
KeptAt(i) ==
    CHOOSE k \in 1 .. Len(call.segs) :
        KeptSegment(k) /\ Cardinality({j \in 1 .. k : KeptSegment(j)}) = i

\* The number of non-blank segments of the last completion.
KeptCount == Cardinality({k \in 1 .. Len(call.segs) : KeptSegment(k)})

\* C11: whatever content the completion carries, the chat backend's batch
\* parser returns one entry per input text: entry i is the i-th non-blank
\* segment, stripped, while there is one, and input text i otherwise;
\* segments beyond the number of inputs are dropped.
C11_BatchParserAligned ==
    (call.op = "_translate_trending_topics_batch" /\ ~call.failed) =>
        /\ Len(call.out) = Len(call.texts)
        /\ \A i \in 1 .. Len(call.texts) :
               call.out[i] = IF i <= KeptCount THEN Strip(call.segs[KeptAt(i)])
                             ELSE call.texts[i]

\* Witness of C11: two texts, a content with one usable segment after a
\* blank one; position 2 holds the second input text.
C11_Witness ==
    /\ call.op = "_translate_trending_topics_batch"
    /\ ~call.failed
    /\ call.texts = <<(<<"a">>), (<<"b">>)>>
    /\ call.segs = <<(<<>>), (<<" ", "y", " ">>)>>
    /\ call.out = <<(<<"y">>), (<<"b">>)>>

\* A content with more usable segments than inputs was cut to the inputs.
C11_TruncationReached ==
    /\ call.op = "_translate_trending_topics_batch"
    /\ ~call.failed
    /\ KeptCount > Len(call.texts)
    /\ Len(call.texts) >= 1

-----------------------------------------------------------------------------
(* translator.translate_trend_items                                        *)
(* A TrendItem is reduced to the fields translation reads and writes.  An  *)
(* Optional field is <<>> when absent (None) and <<v>> when it holds v.    *)

Absent == <<>>

Some(v) == <<v>>

\* A TrendItem as extraction or CSV mapping builds it: the translation
\* fields keep their default None.
TrendItem(title, related) ==
    [title |-> title, top_related |-> related,
     title_translated |-> Absent, related_translated |-> Absent]

\* The related-query lists tried (entries are stripped and not blank).
RelatedChoices == {<<>>, <<(<<"a">>)>>, <<(<<"b">>), (<<"a">>)>>}

\* Items tried: any title (a CSV row can carry a blank one), any list above.
ItemChoices == {TrendItem(t, r) : t \in Texts, r \in RelatedChoices}

\* "titles = [trend.title for trend in trends]"
Titles(ts) == [i \in 1 .. Len(ts) |-> ts[i].title]

\* "all_related.extend(trend.top_related)" over the items with related
\* queries, in item order.
RECURSIVE AllRelated(_)
AllRelated(ts) ==
    IF ts = <<>> THEN <<>> ELSE Head(ts).top_related \o AllRelated(Tail(ts))

\* "related_indices.append((i, len(trend.top_related)))" over the items with
\* related queries.
RECURSIVE RelatedIndices(_, _)
RelatedIndices(ts, i) ==
    IF i > Len(ts) THEN <<>>
    ELSE IF ts[i].top_related # <<>>
           THEN <<(<<i, Len(ts[i].top_related)>>)>> \o RelatedIndices(ts, i + 1)
           ELSE RelatedIndices(ts, i + 1)

\* Python's s[a:b] for 0 <= a <= b.
PySlice(s, a, b) == SubSeq(s, Min(a, Len(s)) + 1, Min(b, Len(s)))

\* "for i, trend in enumerate(trends): trend.title_translated = translated_titles[i]"
ApplyTitles(ts, translated_titles) ==
    [i \in 1 .. Len(ts) |-> [ts[i] EXCEPT !.title_translated = Some(translated_titles[i])]]

\* Mutant: every item's slice starts at the beginning of the flattened list.
RECURSIVE ApplyRelated_NoOffset(_, _, _, _, _)
ApplyRelated_NoOffset(ts, related_indices, translated_related, k, related_idx) ==
    IF k > Len(related_indices) THEN ts
    ELSE LET trend_idx == related_indices[k][1]
             count == related_indices[k][2]
         IN ApplyRelated_NoOffset(
                [ts EXCEPT ![trend_idx].related_translated =
                               Some(PySlice(translated_related, 0, count))],
                related_indices, translated_related, k + 1, related_idx + count)

\* "for trend_idx, count in related_indices:
\*      trend.related_translated = translated_related[related_idx:related_idx + count]
\*      related_idx += count"
RECURSIVE ApplyRelated(_, _, _, _, _)
ApplyRelated(ts, related_indices, translated_related, k, related_idx) ==
    IF k > Len(related_indices) THEN ts
    ELSE LET trend_idx == related_indices[k][1]
             count == related_indices[k][2]
         IN ApplyRelated(
                [ts EXCEPT ![trend_idx].related_translated =
                               Some(PySlice(translated_related, related_idx,
                                            related_idx + count))],
                related_indices, translated_related, k + 1, related_idx + count)

\* The two "apply" loops that end both _translate_trends_basic and
\* _translate_trends_with_context.
ApplyTranslations(ts, translated_titles, translated_related) ==
    LET titled == ApplyTitles(ts, translated_titles) IN
    IF translated_related # <<>>
      THEN ApplyRelated(titled, RelatedIndices(ts, 1), translated_related, 1, 0)
      ELSE titled

\* What translate_trend_items leaves behind: the items, the cache, the
\* service calls made, whether an exception left it, which of its two
\* batch requests failed, and its locals translated_titles and
\* translated_related.
ItemsOutcome(ts, c, sent, raised, titles_failed, related_failed, translated_titles, translated_related) ==
    [items |-> ts, cache |-> c, sent |-> sent, raised |-> raised,
     titles_failed |-> titles_failed, related_failed |-> related_failed,
     translated_titles |-> translated_titles,
     translated_related |-> translated_related]

\* _translate_trends_basic: two translate_batch calls, then the apply loops.
TranslateTrendsBasic(ts, lang, c, r1, r2) ==
    LET all_related == AllRelated(ts)
        o1 == FreeTranslateBatch(Titles(ts), lang, c, r1)
        o2 == IF all_related # <<>>
                THEN FreeTranslateBatch(all_related, lang, o1.cache, r2)
                ELSE Outcome(<<>>, o1.cache, <<>>, FALSE)
    IN ItemsOutcome(ApplyTranslations(ts, o1.out, o2.out), o2.cache,
                    o1.sent \o o2.sent, FALSE, o1.failed, o2.failed,
                    o1.out, o2.out)

\* Mutant: the context path goes through translate_batch, whose handler
\* turns a failed request into the original texts.
TranslateTrendsWithContext_ViaBatch(ts, lang, c, r1, r2) ==
    LET all_related == AllRelated(ts)
        o1 == GPTTranslateBatch(Titles(ts), lang, c, r1)
        o2 == IF all_related # <<>>
                THEN GPTTranslateBatch(all_related, lang, o1.cache, r2)
                ELSE Outcome(<<>>, o1.cache, <<>>, FALSE)
    IN ItemsOutcome(ApplyTranslations(ts, o1.out, o2.out), o2.cache,
                    o1.sent \o o2.sent, FALSE, o1.failed, o2.failed,
                    o1.out, o2.out)

\* _translate_trends_with_context: two direct calls of
\* _translate_trending_topics_batch (no cache, no handler), then the apply
\* loops.  A failed request raises before any item is touched.
TranslateTrendsWithContext(ts, lang, c, r1, r2) ==
    LET all_related == AllRelated(ts)
        a1 == TranslateTrendingTopicsBatch(Titles(ts), r1)
        a2 == IF all_related # <<>>
                THEN TranslateTrendingTopicsBatch(all_related, r2)
                ELSE [raised |-> FALSE, out |-> <<>>]
    IN IF a1.raised
         THEN ItemsOutcome(ts, c, <<Titles(ts)>>, TRUE, TRUE, FALSE, <<>>, <<>>)
         ELSE IF a2.raised
                THEN ItemsOutcome(ts, c, <<Titles(ts), all_related>>, TRUE, FALSE, TRUE,
                                  a1.out, <<>>)
                ELSE ItemsOutcome(ApplyTranslations(ts, a1.out, a2.out), c,
                                  IF all_related # <<>>
                                    THEN <<Titles(ts), all_related>>
                                    ELSE <<Titles(ts)>>,
                                  FALSE, FALSE, FALSE, a1.out, a2.out)

\* translate_trend_items: nothing for an empty list; the context path for a
\* GPTTranslator, the basic path for any other translator.
TranslateTrendItems(ts, prov, lang, c, r1, r2) ==
    IF ts = <<>> THEN ItemsOutcome(ts, c, <<>>, FALSE, FALSE, FALSE, <<>>, <<>>)
    ELSE IF prov = "gpt" THEN TranslateTrendsWithContext(ts, lang, c, r1, r2)
    ELSE TranslateTrendsBasic(ts, lang, c, r1, r2)

\* The answers the service of a translator can give to a batch request.
BatchResponses(prov) == IF prov = "gpt" THEN ChatResponses ELSE FreeResponses

\* The record of a translate_trend_items call.
ItemsCall(o) ==
    [op |-> "translate_trend_items", raised |-> o.raised, sent |-> o.sent,
     titles_failed |-> o.titles_failed, related_failed |-> o.related_failed,
     translated_titles |-> o.translated_titles,
     translated_related |-> o.translated_related]

\* await translate_trend_items(trends, translator, source_lang, geo)
TranslateTrendItemsCall ==
    /\ tti = NoCall
    /\ \E r1, r2 \in BatchResponses(provider) :
         LET o == TranslateTrendItems(items, provider, source_lang, cache, r1, r2) IN
           /\ items' = o.items
           /\ cache' = o.cache
           /\ tti' = ItemsCall(o)
    /\ UNCHANGED <<items0, provider, source_lang, call>>
    /\ UNCHANGED notItems

\* A fresh translator and a list of items.
InitItems ==
    /\ RetryIdle
    /\ ScrapeIdle
    /\ RunIdle
    /\ LaterIdle
    /\ provider \in {"free", "gpt"}
    /\ source_lang \in SourceLangs
    /\ cache = <<>>
    /\ call = NoCall
    /\ items \in SeqsUpTo(ItemChoices, MaxItems)
    /\ items0 = items
    /\ tti = NoCall

NextItems == TranslateTrendItemsCall

SpecItems == InitItems /\ [][NextItems]_vars

-----------------------------------------------------------------------------
(* Claims about translate_trend_items *)

\* C8: when a batch request of the chat backend fails during
\* translate_trend_items, the call completes without raising and the texts
\* of that batch fall back to the originals: a failed title batch leaves
\* every title_translated equal to the title, a failed related-query batch
\* leaves related_translated equal to top_related on every item that has
\* related queries.
C8_ChatBatchFailureFallsBack ==
    (provider = "gpt" /\ tti # NoCall) =>
        /\ (tti.titles_failed \/ tti.related_failed) => ~tti.raised
        /\ tti.titles_failed =>
               \A i \in 1 .. Len(items) : items[i].title_translated = Some(items[i].title)
        /\ tti.related_failed =>
               \A i \in 1 .. Len(items) :
                   items[i].top_related # <<>> =>
                       items[i].related_translated = Some(items[i].top_related)

\* The number of related queries of the items before item i.
RECURSIVE RelatedBefore(_)
RelatedBefore(i) ==
    IF i <= 1 THEN 0 ELSE RelatedBefore(i - 1) + Len(items0[i - 1].top_related)

\* C12: after translate_trend_items has completed on a non-empty list, with
\* either backend, title_translated of item i is entry i of the title
\* batch; an item with k >= 1 related queries has related_translated of
\* length k whose entry j is the entry of the flattened related batch for
\* its j-th query, the items taken in order; an item without related
\* queries keeps related_translated absent.  With the free backend
\* answering, the entry for a query is that query's translation.
C12_RelatedSlices ==
    (tti # NoCall /\ ~tti.raised /\ items0 # <<>>) =>
        /\ Len(items) = Len(items0)
        /\ Len(tti.translated_titles) = Len(items0)
        /\ Len(tti.translated_related) = RelatedBefore(Len(items0) + 1)
        /\ \A i \in 1 .. Len(items0) :
               LET k == Len(items0[i].top_related) IN
               /\ items[i].title = items0[i].title
               /\ items[i].top_related = items0[i].top_related
               /\ items[i].title_translated = Some(tti.translated_titles[i])
               /\ k = 0 => items[i].related_translated = Absent
               /\ k >= 1 =>
                      /\ items[i].related_translated # Absent
                      /\ Len(items[i].related_translated[1]) = k
                      /\ \A j \in 1 .. k :
                             /\ items[i].related_translated[1][j] =
                                    tti.translated_related[RelatedBefore(i) + j]
                             /\ (provider = "free" /\ ~tti.related_failed) =>
                                    items[i].related_translated[1][j] =
                                        Translation(items0[i].top_related[j])

\* Witness of C12: the chat backend translated two items with two and one
\* related queries; each item holds its own slice of the related batch.
C12_Witness ==
    /\ provider = "gpt"
    /\ tti # NoCall /\ ~tti.raised
    /\ Len(items0) = 2
    /\ items0[1].top_related = <<(<<"b">>), (<<"a">>)>>
    /\ items0[2].top_related = <<(<<"a">>)>>
    /\ items[1].related_translated =
           Some(<<Translation(<<"b">>), Translation(<<"a">>)>>)
    /\ items[2].related_translated = Some(<<Translation(<<"a">>)>>)

-----------------------------------------------------------------------------
(* scraper.run_scraper                                                     *)
(* "async with GoogleTrendsScraper(params) as scraper": __aenter__ starts  *)
(* the browser, the body scrapes and translates, __aexit__ closes the      *)
(* browser whether the body returned or raised.  scrape_trends is taken by *)
(* its outcome: the list it returns, or the exception it raises.           *)

\* Values of FetchParams.translation_target: None, the empty string, a code.
TranslationTargets == {"none", "", TargetLanguage}

\* Values of FetchParams.translation_provider (TranslationProvider).
TranslationProviders == {"free", "gpt-nano"}

\* Values of FetchParams.gpt_api_key: None or a key.
ApiKeys == {"none", "key"}

\* The environment variables GPTTranslator.__init__ reads.
KeyVariables == {"OPENAI_API_KEY", "GPT_NANO_API_KEY"}

\* Values of FetchParams.geo: one the language table knows, one it does not.
Geos == {"Japan", "Atlantis"}

\* The items scrape_trends hands over: stripped, non-blank titles.
RunItemChoices ==
    {TrendItem(<<"a">>, <<>>), TrendItem(<<"a">>, <<(<<"b">>)>>), TrendItem(<<"b">>, <<>>)}

\* Truth value of an Optional[str] in a condition.
Truthy(v) == v \notin {"none", ""}

\* _get_source_language: the language of the first table entry whose country
\* name occurs in geo.lower(), "auto" when none does.
GetSourceLanguage(geo) == IF geo = "Japan" THEN "ja" ELSE "auto"

\* GPTTranslator.__init__: "api_key or os.getenv(OPENAI_API_KEY) or
\* os.getenv(GPT_NANO_API_KEY)"; ValueError when nothing is found.
GPTTranslatorInit(api_key, environ) ==
    [raised |-> ~Truthy(api_key) /\ environ \cap KeyVariables = {}, provider |-> "gpt"]

\* FreeTranslator.__init__: _init_translator re-raises whatever
\* GoogleTranslator's constructor raises.
FreeTranslatorInit(google_ok) == [raised |-> ~google_ok, provider |-> "free"]

\* create_translator: FreeTranslator for FREE, GPTTranslator for GPT_NANO,
\* ValueError for anything else.
CreateTranslator(prov, api_key, environ, google_ok) ==
    IF prov = "free" THEN FreeTranslatorInit(google_ok)
    ELSE IF prov = "gpt-nano" THEN GPTTranslatorInit(api_key, environ)
    ELSE [raised |-> TRUE, provider |-> "none"]

\* Mutant: the handler covers the construction of the translator only.
ExceptException_CtorOnly(step) == step = "ctor_failed"

\* "except Exception as e" around the translation block: matches the errors
\* of construction and translation, not a cancellation.
ExceptException(step) == step \in {"ctor_failed", "translate_failed"}

\* How the body of the "async with" ends after the translation block.
BodyEnd(step, ts) ==
    IF step \in {"skipped", "ok"} \/ ExceptException(step)
      THEN [kind |-> "returned", trends |-> ts]
      ELSE [kind |-> "raised", from |-> "translation"]

\* __aenter__ -> start_browser: launch, new_context, new_page; the handler
\* logs and re-raises, and __aexit__ does not run.
StartBrowser ==
    /\ run_pc = "enter"
    /\ \E outcome \in {"ok", "launch_failed", "context_failed", "page_failed"} :
         /\ browser' = IF outcome = "launch_failed" THEN "none" ELSE "open"
         /\ context' = IF outcome \in {"launch_failed", "context_failed"}
                         THEN "none" ELSE "open"
         /\ page' = IF outcome = "ok" THEN "open" ELSE "none"
         /\ run_pc' = IF outcome = "ok" THEN "scrape" ELSE "done"
         /\ run_result' = IF outcome = "ok" THEN run_result
                          ELSE [kind |-> "raised", from |-> "start_browser"]
    /\ UNCHANGED <<close_log, run_params, env, translation_step>>
    /\ UNCHANGED <<translatorVars, itemsVars, notRun>>

\* "trends = await scraper.scrape_trends()" returns a list.
RunScrapeReturned ==
    /\ run_pc = "scrape"
    /\ \E ts \in SeqsUpTo(RunItemChoices, MaxRunItems) :
         /\ items' = ts
         /\ items0' = ts
    /\ run_pc' = "translate"
    /\ UNCHANGED <<close_log, run_params, env, browser, context, page, translation_step, run_result>>
    /\ UNCHANGED <<translatorVars, tti, notRun>>

\* scrape_trends raises: the body is left, __aexit__ runs.
RunScrapeRaised ==
    /\ run_pc = "scrape"
    /\ run_pc' = "exit"
    /\ run_result' = [kind |-> "raised", from |-> "scrape_trends"]
    /\ UNCHANGED <<close_log, run_params, env, browser, context, page, translation_step>>
    /\ UNCHANGED <<translatorVars, itemsVars, notRun>>

\* "if params.translation_target and trends:" is false: straight to return.
RunTranslationSkipped ==
    /\ run_pc = "translate"
    /\ ~(Truthy(run_params.translation_target) /\ items # <<>>)
    /\ translation_step' = "skipped"
    /\ run_result' = BodyEnd("skipped", items)
    /\ run_pc' = "exit"
    /\ UNCHANGED <<close_log, run_params, env, browser, context, page>>
    /\ UNCHANGED <<translatorVars, itemsVars, notRun>>

\* create_translator raises inside the try block.
RunCreateTranslatorRaised ==
    /\ run_pc = "translate"
    /\ Truthy(run_params.translation_target) /\ items # <<>>
    /\ \E google_ok \in BOOLEAN :
         CreateTranslator(run_params.translation_provider, run_params.gpt_api_key,
                          env, google_ok).raised
    /\ translation_step' = "ctor_failed"
    /\ run_result' = BodyEnd("ctor_failed", items)
    /\ run_pc' = "exit"
    /\ UNCHANGED <<close_log, run_params, env, browser, context, page>>
    /\ UNCHANGED <<translatorVars, itemsVars, notRun>>

\* The translator is built and translate_trend_items runs on the scraped
\* list; it returns, raises, or the task is cancelled while it waits.
RunTranslate ==
    /\ run_pc = "translate"
    /\ Truthy(run_params.translation_target) /\ items # <<>>
    /\ \E google_ok \in BOOLEAN, cancelled \in BOOLEAN :
         LET t == CreateTranslator(run_params.translation_provider,
                                   run_params.gpt_api_key, env, google_ok)
             lang == GetSourceLanguage(run_params.geo)
         IN /\ ~t.raised
            /\ provider' = t.provider
            /\ source_lang' = lang
            /\ \E r1, r2 \in BatchResponses(t.provider) :
                 LET o == TranslateTrendItems(items, t.provider, lang, <<>>, r1, r2)
                     step == IF cancelled THEN "cancelled"
                             ELSE IF o.raised THEN "translate_failed" ELSE "ok"
                 IN /\ items' = IF cancelled THEN items ELSE o.items
                    /\ cache' = IF cancelled THEN cache ELSE o.cache
                    /\ tti' = IF cancelled THEN tti ELSE ItemsCall(o)
                    /\ translation_step' = step
                    /\ run_result' = BodyEnd(step, items')
    /\ run_pc' = "exit"
    /\ UNCHANGED <<close_log, run_params, env, browser, context, page, items0, call>>
    /\ UNCHANGED notRun

\* The resources close_browser closes: those that were created ("if
\* self.page:" and so on; a closed object is still an object), in the order
\* of its statements.
CloseSteps ==
    SelectSeq(<<"page", "context", "browser">>,
              LAMBDA r : (r = "page" /\ page # "none")
                         \/ (r = "context" /\ context # "none")
                         \/ (r = "browser" /\ browser # "none"))

\* Mutant: the browser is closed first, then the context, then the page.
CloseOrder_Reversed(steps) == [k \in 1 .. Len(steps) |-> steps[Len(steps) + 1 - k]]

\* The order in which close_browser goes through the resources it closes.
CloseOrder(steps) == steps

\* The state of resource r after a close_browser whose close() calls were
\* made in the order `order` and whose call number `failing` raised (0: none
\* raised): closed if its close() returned, as it was otherwise.
AfterClose(r, was, order, failing) ==
    IF \E k \in 1 .. Len(order) : order[k] = r /\ (failing = 0 \/ k < failing)
      THEN "closed" ELSE was

\* The body of close_browser: one try around the three closes, so the first
\* close() that raises ends the sequence; the handler logs the error and
\* close_browser returns.
CloseBrowserBody ==
    \E failing \in 0 .. Len(CloseSteps) :
        LET order == CloseOrder(CloseSteps) IN
        /\ close_log' = IF failing = 0 THEN order ELSE SubSeq(order, 1, failing)
        /\ page' = AfterClose("page", page, order, failing)
        /\ context' = AfterClose("context", context, order, failing)
        /\ browser' = AfterClose("browser", browser, order, failing)

\* __aexit__ -> close_browser.  The body's return or exception stands.
CloseBrowser ==
    /\ run_pc = "exit"
    /\ CloseBrowserBody
    /\ run_pc' = "done"
    /\ UNCHANGED <<run_params, env, translation_step, run_result>>
    /\ UNCHANGED <<translatorVars, itemsVars, notRun>>

\* A call of run_scraper(params) in some environment.
InitRun ==
    /\ RetryIdle
    /\ ScrapeIdle
    /\ TranslatorIdle
    /\ ItemsIdle
    /\ LaterIdle
    /\ run_pc = "enter"
    /\ run_params \in [geo : Geos, translation_target : TranslationTargets,
                       translation_provider : TranslationProviders,
                       gpt_api_key : ApiKeys]
    /\ env \in SUBSET KeyVariables
    /\ browser = "none"
    /\ context = "none"
    /\ page = "none"
    /\ translation_step = "none"
    /\ run_result = [kind |-> "none"]
    /\ close_log = <<>>

NextRun ==
    \/ StartBrowser
    \/ RunScrapeReturned
    \/ RunScrapeRaised
    \/ RunTranslationSkipped
    \/ RunCreateTranslatorRaised
    \/ RunTranslate
    \/ CloseBrowser

SpecRun == InitRun /\ [][NextRun]_vars

-----------------------------------------------------------------------------
(* Claims about run_scraper *)

\* C7: run_scraper never fails because of translation.  When
\* translation_target is set and scrape_trends returned a non-empty list, a
\* failure while constructing the translator or while translating is caught
\* and run_scraper returns the items scrape_trends produced, same order and
\* number; an exception that leaves run_scraper comes from the start of the
\* browser, from scrape_trends, or from a cancellation.
C7_TranslationNeverFailsRun ==
    run_pc = "done" =>
        /\ translation_step \in {"ctor_failed", "translate_failed"} =>
               /\ Truthy(run_params.translation_target) /\ items0 # <<>>
               /\ run_result.kind = "returned"
               /\ run_result.trends = items0
        /\ run_result.kind = "raised" =>
               \/ run_result.from \in {"start_browser", "scrape_trends"}
               \/ translation_step = "cancelled"

\* A run whose chat translation failed after two items had been scraped.
C7_Witness ==
    /\ run_pc = "done"
    /\ translation_step = "translate_failed"
    /\ Len(items0) = 2
    /\ run_result.kind = "returned"

\* start_browser returned: the session of this run was started.
SessionStarted == run_pc \in {"scrape", "translate", "exit", "done"} /\ page # "none"

\* C14: once the browser session has been started it is released on every
\* exit path: when run_scraper has ended (by a return, by an exception of
\* scrape_trends or of the translation, or with a close() that raised),
\* the page, the context and the browser have each been closed.
C14_SessionReleased ==
    (run_pc = "done" /\ SessionStarted) =>
        /\ page = "closed"
        /\ context = "closed"
        /\ browser = "closed"

\* The position of a resource in close_browser's statements.
CloseRank(r) == IF r = "page" THEN 1 ELSE IF r = "context" THEN 2 ELSE 3

\* C15: close_browser closes the page, then the context, then the browser,
\* leaving out those never created, and no exception of a close() leaves
\* it: the run ends with the return value or the exception of the body; an
\* exception of scrape_trends is still the one that leaves run_scraper.
C15_TeardownOrderAndSilence ==
    (run_pc = "done" /\ SessionStarted) =>
        /\ Len(close_log) >= 1
        /\ \A i, j \in 1 .. Len(close_log) :
               i < j => CloseRank(close_log[i]) < CloseRank(close_log[j])
        /\ close_log[1] = "page"
        /\ \A i \in 1 .. Len(close_log) - 1 :
               CloseRank(close_log[i + 1]) = CloseRank(close_log[i]) + 1
        /\ (browser = "closed") => close_log = <<"page", "context", "browser">>
        /\ run_result.kind \in {"returned", "raised"}
        /\ run_result.kind = "raised" =>
               run_result.from \in {"scrape_trends", "translation"}
        /\ translation_step = "none" =>
               run_result = [kind |-> "raised", from |-> "scrape_trends"]

\* Witness of C15: scrape_trends raised, closing the context raised during
\* the teardown, and the exception of scrape_trends left run_scraper.
C15_Witness ==
    /\ run_pc = "done"
    /\ translation_step = "none"
    /\ close_log = <<"page", "context">>
    /\ context = "open"
    /\ run_result = [kind |-> "raised", from |-> "scrape_trends"]

-----------------------------------------------------------------------------
(* trends_trending_now.main, the command of the full CLI                   *)
(* The options are reduced to what decides the path through main: whether  *)
(* the five enum strings convert, the translation-provider string,         *)
(* --simple-list and --translate-to.  run_main_scraping is taken by its    *)
(* outcome.                                                                *)

\* Values of --translation-provider: the two known names and another string.
ProviderStrings == {"free", "gpt-nano", "bogus"}

\* What a step of the try block can end with.
StepOutcomes == {"ok", "Exception", "KeyboardInterrupt"}

\* "translation_provider_enum = ..." of the conversion block; "invalid" is
\* the else branch, which prints and returns 1.
ProviderEnum(name) == IF name \in TranslationProviders THEN name ELSE "invalid"

\* "TranslationProvider.GPT_NANO if os.getenv("OPENAI_API_KEY") else
\* TranslationProvider.FREE", in main and in simple_trends.get_trending_topics
AutoProvider(environ) == IF "OPENAI_API_KEY" \in environ THEN "gpt-nano" ELSE "free"

\* The simple-list block: without --translate-to the target becomes zh and
\* the provider is chosen from the environment.
SimpleListParams(args, environ) ==
    IF args.simple_list /\ ~Truthy(args.translate_to)
      THEN [translation_target |-> TargetLanguage,
            translation_provider |-> AutoProvider(environ)]
      ELSE [translation_target |-> args.translate_to,
            translation_provider |-> ProviderEnum(args.translation_provider)]

\* simple_trends.get_trending_topics: always zh, provider from the environment.
GetTrendingTopicsParams(environ) ==
    [translation_target |-> TargetLanguage, translation_provider |-> AutoProvider(environ)]

\* Mutant: every exception is taken by the general handler.
HandlerFor_General(exc) == "Exception"

\* The except clause of main's try that takes an exception: KeyboardInterrupt
\* first, then Exception.
HandlerFor(exc) == IF exc = "KeyboardInterrupt" THEN "KeyboardInterrupt" ELSE "Exception"

\* Mutant: an empty result counts as success.
OutputCode_EmptyOk(n, simple, exported) ==
    IF n = 0 THEN 0 ELSE IF simple THEN 0 ELSE IF exported THEN 0 ELSE 1

\* The value returned by the "if trends:" block when nothing raises.
OutputCode(n, simple, exported) ==
    IF n > 0
      THEN IF simple THEN 0 ELSE IF exported THEN 0 ELSE 1
      ELSE 1

\* Where main goes when a step of the try block raises exc: it returns 130
\* at once, or enters the general handler.
CliRaise(exc) ==
    IF HandlerFor(exc) = "KeyboardInterrupt"
      THEN cli_pc' = "done" /\ cli_code' = 130
      ELSE cli_pc' = "except" /\ cli_code' = cli_code

\* The conversion of the option strings and the simple-list block.
CliConvert ==
    /\ cli_pc = "convert"
    /\ IF ~cli_args.enums_valid \/ ProviderEnum(cli_args.translation_provider) = "invalid"
         THEN /\ cli_pc' = "done"
              /\ cli_code' = 1
              /\ UNCHANGED cli_params
         ELSE /\ cli_pc' = "scrape"
              /\ cli_params' = SimpleListParams(cli_args, env)
              /\ UNCHANGED cli_code
    /\ UNCHANGED <<cli_args, cli_scrape, cli_trends, cli_output, cli_report>>
    /\ UNCHANGED notCli

\* "trends = asyncio.run(run_main_scraping(params))"
CliRunScraper ==
    /\ cli_pc = "scrape"
    /\ \E outcome \in StepOutcomes :
         IF outcome = "ok"
           THEN /\ \E n \in 0 .. MaxCliItems : cli_trends' = n
                /\ cli_scrape' = "returned"
                /\ cli_pc' = "output"
                /\ UNCHANGED cli_code
           ELSE /\ cli_scrape' = outcome
                /\ CliRaise(outcome)
                /\ UNCHANGED cli_trends
    /\ UNCHANGED <<cli_args, cli_params, cli_output, cli_report>>
    /\ UNCHANGED notCli

\* The "if trends:" block: the list is printed (simple list) or exported
\* and summarised; an empty list is reported.  export_data answers True or
\* False; printing, get_output_path and print_export_summary can raise.
CliOutput ==
    /\ cli_pc = "output"
    /\ \/ /\ cli_trends = 0
          /\ cli_output' = "empty"
          /\ cli_pc' = "done"
          /\ cli_code' = OutputCode(cli_trends, cli_args.simple_list, FALSE)
       \/ /\ cli_trends > 0
          /\ cli_args.simple_list
          /\ \E outcome \in StepOutcomes :
               IF outcome = "ok"
                 THEN /\ cli_output' = "listed"
                      /\ cli_pc' = "done"
                      /\ cli_code' = OutputCode(cli_trends, TRUE, FALSE)
                 ELSE /\ cli_output' = outcome
                      /\ CliRaise(outcome)
       \/ /\ cli_trends > 0
          /\ ~cli_args.simple_list
          /\ \E success \in BOOLEAN, outcome \in StepOutcomes :
               IF outcome = "ok"
                 THEN /\ cli_output' = IF success THEN "exported" ELSE "export_failed"
                      /\ cli_pc' = "done"
                      /\ cli_code' = OutputCode(cli_trends, FALSE, success)
                 ELSE /\ cli_output' = outcome
                      /\ CliRaise(outcome)
    /\ UNCHANGED <<cli_args, cli_params, cli_scrape, cli_trends, cli_report>>
    /\ UNCHANGED notCli

\* "except Exception as e": the ErrorReport is built and written to
\* ./logs/error_report.json; whatever the write raises is dropped by the
\* bare except; main returns 1.
CliExcept ==
    /\ cli_pc = "except"
    /\ \E write_ok \in BOOLEAN :
         cli_report' = [written |-> IF write_ok THEN "saved" ELSE "failed",
                        stage |-> "main_execution", screenshot_path |-> "none"]
    /\ cli_code' = 1
    /\ cli_pc' = "done"
    /\ UNCHANGED <<cli_args, cli_params, cli_scrape, cli_trends, cli_output>>
    /\ UNCHANGED notCli

\* main is called with some options in some environment.
InitCli ==
    /\ RetryIdle
    /\ ScrapeIdle
    /\ TranslatorIdle
    /\ ItemsIdle
    /\ run_pc = "idle"
    /\ run_params = [geo |-> "Vietnam", translation_target |-> "none",
                     translation_provider |-> "free", gpt_api_key |-> "none"]
    /\ env \in SUBSET KeyVariables
    /\ browser = "none"
    /\ context = "none"
    /\ page = "none"
    /\ translation_step = "none"
    /\ run_result = [kind |-> "none"]
    /\ close_log = <<>>
    /\ ExtractIdle
    /\ ExportIdle
    /\ MoreIdle
    /\ cli_pc = "convert"
    /\ cli_args \in [enums_valid : BOOLEAN, translation_provider : ProviderStrings,
                     simple_list : BOOLEAN, translate_to : {"none", TargetLanguage}]
    /\ cli_params = [translation_target |-> "none", translation_provider |-> "none"]
    /\ cli_scrape = "none"
    /\ cli_trends = 0
    /\ cli_output = "none"
    /\ cli_report = [written |-> "none"]
    /\ cli_code = -1

NextCli ==
    \/ CliConvert
    \/ CliRunScraper
    \/ CliOutput
    \/ CliExcept

SpecCli == InitCli /\ [][NextCli]_vars

-----------------------------------------------------------------------------
(* Claims about the full CLI *)

\* The options main was called with are invalid.
InvalidArgs ==
    ~cli_args.enums_valid \/ cli_args.translation_provider \notin TranslationProviders

C16_SimpleListProvider ==
    (cli_pc \in {"scrape", "output", "except", "done"} /\ ~InvalidArgs
         /\ cli_args.simple_list /\ ~Truthy(cli_args.translate_to)) =>
        LET expected == IF env \cap KeyVariables # {} THEN "gpt-nano" ELSE "free" IN
        /\ cli_params.translation_target = TargetLanguage
        /\ cli_params.translation_provider = expected
        /\ GetTrendingTopicsParams(env).translation_provider = expected

\* C17: main writes an ErrorReport, with stage main_execution and no
\* screenshot, exactly when a step of the scrape or output path raised an
\* exception other than a keyboard interruption: none on invalid options,
\* on an empty result, on an export that reports failure, or on an
\* interruption; when writing the report fails main still returns 1.
C17_ErrorReportOnlyOnException ==
    cli_pc = "done" =>
        /\ cli_report.written # "none" <=> "Exception" \in {cli_scrape, cli_output}
        /\ cli_report.written # "none" =>
               /\ cli_report.stage = "main_execution"
               /\ cli_report.screenshot_path = "none"
               /\ cli_code = 1
        /\ InvalidArgs => cli_report.written = "none"
        /\ cli_output \in {"empty", "export_failed"} => cli_report.written = "none"
        /\ "KeyboardInterrupt" \in {cli_scrape, cli_output} => cli_report.written = "none"

\* Witness of C17: the scrape raised, the report could not be written, and
\* main returned 1.
C17_Witness ==
    /\ cli_pc = "done"
    /\ cli_scrape = "Exception"
    /\ cli_report.written = "failed"
    /\ cli_code = 1

\* An interrupted run ended without a report.
C17_InterruptReached ==
    /\ cli_pc = "done"
    /\ cli_output = "KeyboardInterrupt"
    /\ cli_report.written = "none"

-----------------------------------------------------------------------------
(* utils.parse_relative_time and scraper._extract_single_trend             *)
(* Strings are sequences of characters, so that "in" is a substring test   *)
(* and the regular expressions are matched character by character.  A      *)
(* row's text is given by its lines (row_text.split of the code).  The     *)
(* extracted item is reduced to title, started_relative, started_iso and   *)
(* status.                                                                 *)

Str_ago == <<"a", "g", "o">>
Str_now == <<"n", "o", "w">>
Str_just_now == <<"j", "u", "s", "t", " ", "n", "o", "w">>
Str_Active == <<"A", "c", "t", "i", "v", "e">>
Str_Lasted == <<"L", "a", "s", "t", "e", "d">>
Str_Unknown == <<"U", "n", "k", "n", "o", "w", "n">>

\* The time units of the patterns, in the order the patterns are tried.
TimeUnits == <<<<"m", "i", "n", "u", "t", "e">>, <<"h", "o", "u", "r">>, <<"d", "a", "y">>, <<"w", "e", "e", "k">>>>

\* str.lower() on the letters that occur.
LowerChar(c) ==
    CASE c = "A" -> "a" [] c = "U" -> "u" [] c = "L" -> "l" [] c = "N" -> "n"
      [] c = "M" -> "m" [] c = "J" -> "j" [] OTHER -> c

Lower(str) == [i \in 1 .. Len(str) |-> LowerChar(str[i])]

\* "sub in str"
HasSubstring(str, sub) ==
    \E i \in 1 .. Len(str) - Len(sub) + 1 : SubSeq(str, i, i + Len(sub) - 1) = sub

\* \d
IsDigit(c) == c \in {"0", "1", "2", "3", "4", "5", "6", "7", "8", "9"}

\* The index after the run of characters of class `digits` (\d+ when TRUE,
\* \s* when FALSE) that starts at i.
RECURSIVE RunEnd(_, _, _)
RunEnd(str, i, digits) ==
    IF i <= Len(str) /\ (IF digits THEN IsDigit(str[i]) ELSE str[i] = " ")
      THEN RunEnd(str, i + 1, digits) ELSE i

\* str has word w at index i.
StartsAt(str, i, w) ==
    i + Len(w) - 1 <= Len(str) /\ SubSeq(str, i, i + Len(w) - 1) = w

\* r"(\d+)\s*UNITs?\s*ago" matches str from index i on.
MatchesAt(str, i, unit) ==
    /\ i <= Len(str) /\ IsDigit(str[i])
    /\ LET u == RunEnd(str, RunEnd(str, i, TRUE), FALSE)
           e == u + Len(unit)
           a == RunEnd(str, IF StartsAt(str, e, <<"s">>) THEN e + 1 ELSE e, FALSE)
       IN StartsAt(str, u, unit) /\ StartsAt(str, a, Str_ago)

\* re.search(pattern, str) finds a match.
Matches(str, unit) == \E i \in 1 .. Len(str) : MatchesAt(str, i, unit)

\* int(x) of a digit string.
RECURSIVE DigitsValue(_)
DigitsValue(ds) ==
    IF ds = <<>> THEN 0
    ELSE 10 * DigitsValue(SubSeq(ds, 1, Len(ds) - 1))
         + (CHOOSE v \in 0 .. 9 : ToString(v) = ds[Len(ds)])

\* int(match.group(1)) of the leftmost match.
MatchedNumber(str, unit) ==
    LET i == CHOOSE k \in 1 .. Len(str) :
                 MatchesAt(str, k, unit) /\ \A j \in 1 .. k - 1 : ~MatchesAt(str, j, unit)
    IN DigitsValue(SubSeq(str, i, RunEnd(str, i, TRUE) - 1))

\* The loop over the patterns: the first unit whose pattern matches (0: none).
RECURSIVE FirstMatchingUnit(_, _)
FirstMatchingUnit(str, k) ==
    IF k > Len(TimeUnits) THEN 0
    ELSE IF Matches(str, TimeUnits[k]) THEN k
    ELSE FirstMatchingUnit(str, k + 1)

\* parse_relative_time: now minus N units, now, or None.
ParseRelativeTime(relative_time) ==
    LET str == Strip(Lower(relative_time))
        k == FirstMatchingUnit(str, 1)
    IN IF k # 0
         THEN Some([unit |-> TimeUnits[k], ago |-> MatchedNumber(str, TimeUnits[k])])
         ELSE IF HasSubstring(str, Str_just_now) \/ HasSubstring(str, Str_now)
                THEN Some([unit |-> Str_now, ago |-> 0])
                ELSE Absent

\* The phrases parse_relative_time is tried on.
Phrases ==
    {Str_Unknown, <<"3", " ", "h", "o", "u", "r", "s", " ", "a", "g", "o">>, <<"1", "5", " ", "m", "i", "n", "u", "t", "e", "s", " ", "a", "g", "o">>, <<"1", " ", "d", "a", "y", " ", "a", "g", "o">>, <<"2", "w", "e", "e", "k", "s", " ", " ", "a", "g", "o">>,
     Str_just_now, <<"N", "o", "w">>, <<" ", "n", "o", "w", " ">>, <<"y", "e", "s", "t", "e", "r", "d", "a", "y">>, <<"h", "o", "u", "r", "s", " ", "a", "g", "o">>, <<"3", " ", "h", "r", " ", "a", "g", "o">>}

\* The lines a row is made of.
LineChoices == {<<"A", "b">>, Str_Active, <<"L", "a", "s", "t", "e", "d", " ", "2", " ", "h", "r">>, <<"3", " ", "h", "o", "u", "r", "s", " ", "a", "g", "o">>, <<" ">>}

\* The rows tried: three lines (too few) up to MaxRowLines.
Rows == UNION {[1 .. n -> LineChoices] : n \in 3 .. MaxRowLines}

\* "lines = [line.strip() for line in row_text.split('\n') if line.strip()]"
RECURSIVE StrippedLines(_)
StrippedLines(raw) ==
    IF raw = <<>> THEN <<>>
    ELSE IF Strip(Head(raw)) # <<>>
           THEN <<Strip(Head(raw))>> \o StrippedLines(Tail(raw))
           ELSE StrippedLines(Tail(raw))

\* "x in row_text": the needles hold no line break, so one line holds them.
InRowText(raw, needle) == \E i \in 1 .. Len(raw) : HasSubstring(raw[i], needle)

\* The first line with "ago" in line.lower(), "Unknown" when there is none.
RelativeTimeOf(lines) ==
    IF \E i \in 1 .. Len(lines) : HasSubstring(Lower(lines[i]), Str_ago)
      THEN lines[CHOOSE i \in 1 .. Len(lines) :
                     /\ HasSubstring(Lower(lines[i]), Str_ago)
                     /\ \A j \in 1 .. i - 1 : ~HasSubstring(Lower(lines[j]), Str_ago)]
      ELSE Str_Unknown

\* Mutant: the test for "Lasted" comes first.
StatusOf_LastedFirst(raw) ==
    IF InRowText(raw, Str_Lasted) THEN "Lasted" ELSE "Active"

\* "status = ACTIVE; if "Active" in row_text: ACTIVE; elif "Lasted" in
\* row_text: LASTED" (stored as the enum's value)
StatusOf(raw) ==
    IF InRowText(raw, Str_Active) THEN "Active"
    ELSE IF InRowText(raw, Str_Lasted) THEN "Lasted"
    ELSE "Active"

\* _extract_single_trend: None for a row with fewer than four non-blank
\* lines or an unusable title, the item otherwise.
ExtractSingleTrend(raw) ==
    LET lines == StrippedLines(raw) IN
    IF Len(lines) < 4 THEN Absent
    ELSE LET title == lines[1]
             relative_time == RelativeTimeOf(lines)
         IN IF title = <<>> \/ title = Str_Unknown \/ Len(title) < 2 THEN Absent
            ELSE Some([title |-> title,
                       started_relative |-> relative_time,
                       started_iso |-> ParseRelativeTime(relative_time),
                       status |-> StatusOf(raw)])

\* await self._extract_single_trend(item_element, page_index)
ExtractSingleTrendCall ==
    /\ single_trend.op = "none"
    /\ single_trend' = [op |-> "_extract_single_trend", result |-> ExtractSingleTrend(row_text)]
    /\ UNCHANGED <<row_text, prt>>
    /\ UNCHANGED notExtract

\* parse_relative_time(relative_time)
ParseRelativeTimeCall ==
    /\ \E phrase \in Phrases :
         prt' = [op |-> "parse_relative_time", phrase |-> phrase,
                 result |-> ParseRelativeTime(phrase)]
    /\ UNCHANGED <<row_text, single_trend>>
    /\ UNCHANGED notExtract

\* A table row of the page.
InitExtract ==
    /\ RetryIdle
    /\ ScrapeIdle
    /\ TranslatorIdle
    /\ ItemsIdle
    /\ RunIdle
    /\ CliIdle
    /\ ExportIdle
    /\ MoreIdle
    /\ row_text \in Rows
    /\ single_trend = [op |-> "none"]
    /\ prt = [op |-> "none"]

NextExtract ==
    \/ ExtractSingleTrendCall
    \/ ParseRelativeTimeCall

SpecExtract == InitExtract /\ [][NextExtract]_vars

-----------------------------------------------------------------------------
(* Claims about the extraction of a row *)

\* _extract_single_trend returned an item for the row.
ItemExtracted == single_trend.op # "none" /\ single_trend.result # Absent

\* C19: the status of an extracted item is Lasted whenever its row text
\* contains "Lasted", and Active otherwise.
C19_StatusFromRowText ==
    ItemExtracted =>
        single_trend.result[1].status =
            IF InRowText(row_text, Str_Lasted) THEN "Lasted" ELSE "Active"

\* A phrase "N minutes/hours/days/weeks ago", "just now" or "now".
RelativePhrase(phrase) ==
    LET str == Strip(Lower(phrase)) IN
    \/ \E k \in 1 .. Len(TimeUnits) : Matches(str, TimeUnits[k])
    \/ str \in {Str_just_now, Str_now}

\* C20: parse_relative_time returns a timestamp only for a phrase of the
\* form "N minutes/hours/days/weeks ago", "just now" or "now" and absent
\* for any other; so an extracted item whose row has no line containing
\* "ago" has started_relative "Unknown" and started_iso absent.
C20_UnparseableIsAbsent ==
    /\ prt.op # "none" => (prt.result # Absent <=> RelativePhrase(prt.phrase))
    /\ (ItemExtracted /\ ~InRowText(row_text, Str_ago)) =>
           /\ single_trend.result[1].started_relative = Str_Unknown
           /\ single_trend.result[1].started_iso = Absent

-----------------------------------------------------------------------------
(* exporter.DataExporter.export_data                                       *)
(* A field value is [type, value]: type "enum" for an Enum member, "str"   *)
(* for a plain string.  A TrendItem is reduced to its title and its enum   *)
(* fields.                                                                 *)

\* Values of OutputFormat.
OutputFormats == {"json", "csv", "parquet"}

\* An Enum member with the given value.
EnumMember(v) == [type |-> "enum", value |-> v]

\* A plain string.
PlainStr(v) == [type |-> "str", value |-> v]

\* Mutant: the model keeps the Enum member (no use_enum_values).
Validated_KeepEnum(field) == EnumMember(field.value)

\* What validation stores for an enum field under "use_enum_values = True":
\* the member's value, whether a member or its value was passed.
Validated(field) == PlainStr(field.value)

\* TrendItem(title=..., status=..., time_window=..., category=..., sort=...)
ExportItem(title, status, time_window, category, sort) ==
    [title |-> title, status |-> Validated(status),
     time_window |-> Validated(time_window), category |-> Validated(category),
     sort |-> Validated(sort)]

\* The item _extract_single_trend builds: status is a TrendStatus member,
\* the context fields are the members held by FetchParams.
DomExportItem(title, status) ==
    ExportItem(title, EnumMember(status), EnumMember("past_24_hours"),
               EnumMember("all"), EnumMember("relevance"))

\* The item map_csv_to_trends builds: status is the string _parse_status
\* returns, the context fields come from the params dictionary.
CsvExportItem(title, status) ==
    ExportItem(title, PlainStr(status), PlainStr("past_24_hours"),
               PlainStr("all"), PlainStr("relevance"))

\* The items given to export_data.
ExportItemChoices ==
    {DomExportItem(t, st) : t \in {<<"a">>, <<"b">>}, st \in {"Active", "Lasted"}}
        \cup {CsvExportItem(t, st) : t \in {<<"a">>, <<"b">>}, st \in {"Active", "Lasted"}}

\* "x.value" is defined on an Enum member and raises AttributeError on a str.
HasValueAttribute(field) == field.type = "enum"

\* _trends_to_dataframe raises while it builds a row: one of trend.status.value,
\* trend.time_window.value, trend.category.value, trend.sort.value fails.
DataframeRaises(ts) ==
    \E i \in 1 .. Len(ts) :
        \/ ~HasValueAttribute(ts[i].status)
        \/ ~HasValueAttribute(ts[i].time_window)
        \/ ~HasValueAttribute(ts[i].category)
        \/ ~HasValueAttribute(ts[i].sort)

\* The rows of the DataFrame, one per item in list order.
DataframeRows(ts) ==
    [i \in 1 .. Len(ts) |-> [title |-> ts[i].title, status |-> ts[i].status.value]]

\* The rows json.dump writes from model_dump().
JsonRows(ts) ==
    [i \in 1 .. Len(ts) |-> [title |-> ts[i].title, status |-> ts[i].status.value]]

\* export_data -> _export_json / _export_csv / _export_parquet: each catches
\* every exception, logs it and returns False.
ExportData ==
    /\ exp_result = "none"
    /\ IF exp_format = "json"
         THEN IF exp_io = "ok"
                THEN /\ exp_file' = [written |-> TRUE, rows |-> JsonRows(exp_trends)]
                     /\ exp_result' = "true"
                ELSE /\ exp_file' = exp_file
                     /\ exp_result' = "false"
         ELSE IF ~DataframeRaises(exp_trends) /\ exp_io = "ok"
                THEN /\ exp_file' = [written |-> TRUE, rows |-> DataframeRows(exp_trends)]
                     /\ exp_result' = "true"
                ELSE /\ exp_file' = exp_file
                     /\ exp_result' = "false"
    /\ UNCHANGED <<exp_trends, exp_format, exp_io>>
    /\ UNCHANGED notExport

\* export_data is called with a list of items, a format and a file system
\* that takes the file or not.
InitExport ==
    /\ RetryIdle
    /\ ScrapeIdle
    /\ TranslatorIdle
    /\ ItemsIdle
    /\ RunIdle
    /\ CliIdle
    /\ ExtractIdle
    /\ MoreIdle
    /\ exp_trends \in SeqsUpTo(ExportItemChoices, MaxExportItems)
    /\ exp_format \in OutputFormats
    /\ exp_io \in {"ok", "error"}
    /\ exp_result = "none"
    /\ exp_file = [written |-> FALSE]

NextExport == ExportData

SpecExport == InitExport /\ [][NextExport]_vars

-----------------------------------------------------------------------------
(* Claims about the exporter *)

\* C18: export_data with format csv or parquet, given N >= 1 items built
\* through the model, returns true and writes N rows, one per item in list
\* order, with the item's title in the title column (so both formats give
\* the same rows).  The file system is taken to accept the file.
C18_TabularExportWritesRows ==
    (exp_result # "none" /\ exp_format \in {"csv", "parquet"}
         /\ Len(exp_trends) >= 1 /\ exp_io = "ok") =>
        /\ exp_result = "true"
        /\ exp_file.written
        /\ Len(exp_file.rows) = Len(exp_trends)
        /\ \A i \in 1 .. Len(exp_trends) : exp_file.rows[i].title = exp_trends[i].title

-----------------------------------------------------------------------------
(* Titles of the items a run returns *)

\* C21: every item of the list scrape_trends returns, whichever path made
\* it (its own loop, the DOM fallback, the CSV import), has a non-empty
\* title; a DOM-extracted item has a title of at least two characters that
\* is not "Unknown".
C21_TitlesNonEmpty ==
    Returned =>
        \A i \in 1 .. Len(scrape_result.items) :
            LET item == scrape_result.items[i] IN
              /\ item.title # <<>>
              /\ item.source = "scrape" => (Len(item.title) >= 2 /\ item.title # Str_Unknown)

-----------------------------------------------------------------------------
(* utils.parse_search_volume *)
(* A text is a sequence of characters.                                     *)

AsciiLowercase == <<"a", "b", "c", "d", "e", "f", "g", "h", "i", "j", "k", "l", "m", "n", "o", "p", "q", "r", "s", "t", "u", "v", "w", "x", "y", "z">>

AsciiUppercase == <<"A", "B", "C", "D", "E", "F", "G", "H", "I", "J", "K", "L", "M", "N", "O", "P", "Q", "R", "S", "T", "U", "V", "W", "X", "Y", "Z">>

IndexIn(alphabet, c) == CHOOSE i \in 1 .. Len(alphabet) : alphabet[i] = c

IsIn(alphabet, c) == \E i \in 1 .. Len(alphabet) : alphabet[i] = c

\* str.upper()
StrUpper(t) ==
    [i \in 1 .. Len(t) |->
        IF IsIn(AsciiLowercase, t[i]) THEN AsciiUppercase[IndexIn(AsciiLowercase, t[i])] ELSE t[i]]

\* str.lower()
StrLower(t) ==
    [i \in 1 .. Len(t) |->
        IF IsIn(AsciiUppercase, t[i]) THEN AsciiLowercase[IndexIn(AsciiUppercase, t[i])] ELSE t[i]]

Str_PLUS == <<"_", "P", "L", "U", "S">>

\* cleaned.replace("+", "_PLUS")
RECURSIVE ReplacePlus(_)
ReplacePlus(t) ==
    IF t = <<>> THEN <<>>
    ELSE (IF Head(t) = "+" THEN Str_PLUS ELSE <<Head(t)>>) \o ReplacePlus(Tail(t))

\* The class [A-Z0-9_]
InBucketClass(c) == IsIn(AsciiUppercase, c) \/ IsDigit(c) \/ c = "_"

\* re.sub(r"[^A-Z0-9_]", "_", bucket)
ReplaceSpecial(t) == [i \in 1 .. Len(t) |-> IF InBucketClass(t[i]) THEN t[i] ELSE "_"]

\* Mutant: runs of underscores are kept.
CollapseUnderscores_Keep(t) == t

\* re.sub(r"_+", "_", bucket)
RECURSIVE CollapseUnderscores(_)
CollapseUnderscores(t) ==
    IF Len(t) < 2 THEN t
    ELSE IF t[1] = "_" /\ t[2] = "_"
           THEN CollapseUnderscores(Tail(t))
           ELSE <<Head(t)>> \o CollapseUnderscores(Tail(t))

\* bucket.strip("_")
RECURSIVE StripUnderscores(_)
StripUnderscores(t) ==
    IF t # <<>> /\ Head(t) = "_" THEN StripUnderscores(Tail(t))
    ELSE IF t # <<>> /\ t[Len(t)] = "_" THEN StripUnderscores(SubSeq(t, 1, Len(t) - 1))
    ELSE t

\* parse_search_volume(volume_text)
ParseSearchVolume(volume_text_) ==
    LET cleaned == StrUpper(Strip(volume_text_))
        bucket == StripUnderscores(CollapseUnderscores(ReplaceSpecial(ReplacePlus(cleaned))))
    IN StrLower(bucket)

\* The characters volume texts are made of.
VolumeChars == {"2", "M", "k", "+", "_", " ", "%"}

Str_500K == <<"5", "0", "0", "K", "+">>

\* The volume texts tried: every text up to MaxVolumeLen, and "500K+".
VolumeTexts == SeqsUpTo(VolumeChars, MaxVolumeLen) \cup {Str_500K}

\* parse_search_volume(volume_text)
ParseSearchVolumeCall ==
    /\ psv = <<>>
    /\ psv' = <<ParseSearchVolume(volume_text)>>
    /\ UNCHANGED volume_text
    /\ UNCHANGED notVolume

\* parse_search_volume applied to its own result.
ParseSearchVolumeAgain ==
    /\ Len(psv) = 1
    /\ psv' = Append(psv, ParseSearchVolume(psv[1]))
    /\ UNCHANGED volume_text
    /\ UNCHANGED notVolume

InitVolume ==
    /\ RetryIdle
    /\ ScrapeIdle
    /\ TranslatorIdle
    /\ ItemsIdle
    /\ RunIdle
    /\ CliIdle
    /\ ExtractIdle
    /\ ExportIdle
    /\ FilterIdle
    /\ volume_text \in VolumeTexts
    /\ psv = <<>>

NextVolume ==
    \/ ParseSearchVolumeCall
    \/ ParseSearchVolumeAgain

SpecVolume == InitVolume /\ [][NextVolume]_vars

\* digits, then K or M, then a plus sign
IsVolumeForm(t) ==
    /\ Len(t) >= 3
    /\ t[Len(t)] = "+"
    /\ t[Len(t) - 1] \in {"K", "M"}
    /\ \A i \in 1 .. Len(t) - 2 : IsDigit(t[i])

\* Only characters of [a-z0-9_], no underscore first or last, no two in a row.
IsToken(t) ==
    /\ \A i \in 1 .. Len(t) : IsIn(AsciiLowercase, t[i]) \/ IsDigit(t[i]) \/ t[i] = "_"
    /\ t # <<>> => (t[1] # "_" /\ t[Len(t)] # "_")
    /\ \A i \in 1 .. Len(t) - 1 : ~(t[i] = "_" /\ t[i + 1] = "_")

C22_FormReached == volume_text = <<"2", "M", "+">> /\ Len(psv) = 2

-----------------------------------------------------------------------------
(* Translation and the browser session in run_scraper *)

\* C23: translation never overlaps the browser session: whenever the
\* translator has been constructed or translate_trend_items has been called,
\* the session's teardown has already run and no page, context or browser
\* is open.
C23_TranslationAfterSession ==
    (provider # "none" \/ tti.op # "none") =>
        /\ run_pc = "done"
        /\ page # "open" /\ context # "open" /\ browser # "open"

-----------------------------------------------------------------------------
(* GoogleTrendsScraper._apply_filters *)
(* A geo name is a sequence of characters.  The page's answers are inputs. *)

Str_United_States == <<"U", "n", "i", "t", "e", "d", " ", "S", "t", "a", "t", "e", "s">>

Str_united_states == <<"u", "n", "i", "t", "e", "d", " ", "s", "t", "a", "t", "e", "s">>

Str_United_Kingdom == <<"U", "n", "i", "t", "e", "d", " ", "K", "i", "n", "g", "d", "o", "m">>

Str_Japan == <<"J", "a", "p", "a", "n">>

Str_Atlantis == <<"A", "t", "l", "a", "n", "t", "i", "s">>

Str_US == <<"U", "S">>

Str_jp == <<"j", "p">>

\* utils.get_geo_code: a known code gives its full name, anything else is
\* returned as it is (the entries of geo_mappings the tried names can hit).
GetGeoCode(location) ==
    LET location_lower == StrLower(location) IN
    IF location_lower \in {<<"u", "s">>, <<"u", "s", "a">>} THEN Str_United_States
    ELSE IF location_lower \in {<<"u", "k">>, <<"g", "b">>} THEN Str_United_Kingdom
    ELSE IF location_lower = <<"j", "p">> THEN Str_Japan
    ELSE location

\* _get_geo_url_param: geo_url_map.get(geo_name, "")
GetGeoUrlParam(geo_name) ==
    CASE geo_name = Str_United_States -> "US"
      [] geo_name = Str_Japan -> "JP"
      [] geo_name = Str_United_Kingdom -> "GB"
      [] OTHER -> ""

\* Mutant: every geo but United States asks for the location setter.
NeedsLocationChange_AnyForeign(p) == p.geo # Str_United_States

\* needs_location_change = self.params.geo != "United States" and not geo_param
NeedsLocationChange(p) ==
    p.geo # Str_United_States /\ GetGeoUrlParam(GetGeoCode(p.geo)) = ""

\* needs_filter_changes
NeedsFilterChanges(p) ==
    \/ NeedsLocationChange(p)
    \/ p.time_window # "past_24_hours"
    \/ p.category # "all"
    \/ p.active_only
    \/ p.sort # "relevance"

\* How a setter can go: both of its clicks are made, the second raises, the
\* first raises (each caught and logged by the setter), or the task is
\* cancelled at its first await (caught by no handler).
SetterOutcomes == {"ok", "second_raised", "first_raised", "cancelled"}

\* The controls a setter has clicked when it ends with outcome o.
ClicksOf(o, first, second) ==
    IF o = "ok" THEN <<first, second>>
    ELSE IF o = "second_raised" THEN <<first>>
    ELSE <<>>

\* "if needed: await self._set_...()" and the move to the next statement.
SetterStep(stage, needed, first, second, next) ==
    /\ filter_pc = stage
    /\ IF needed
         THEN \E o \in SetterOutcomes :
                /\ setters' = Append(setters, stage)
                /\ clicks' = clicks \o ClicksOf(o, first, second)
                /\ filter_pc' = IF o = "cancelled" THEN "raised" ELSE next
         ELSE /\ filter_pc' = next
              /\ UNCHANGED <<setters, clicks>>
    /\ UNCHANGED fparams
    /\ UNCHANGED notFilter

\* _apply_filters up to "if needs_filter_changes:": wait_for_selector
\* returns or times out (the handler re-raises).
FiltersWait ==
    /\ filter_pc = "wait"
    /\ \E o \in {"ok", "timeout"} :
         filter_pc' = IF o = "timeout" THEN "raised"
                      ELSE IF NeedsFilterChanges(fparams) THEN "location" ELSE "returned"
    /\ UNCHANGED <<fparams, setters, clicks>>
    /\ UNCHANGED notFilter

FiltersLocation ==
    SetterStep("location", NeedsLocationChange(fparams), "Select location", "location option", "time_window")

FiltersTimeWindow ==
    SetterStep("time_window", fparams.time_window # "past_24_hours", "Past 24 hours", "time option", "category")

FiltersCategory ==
    SetterStep("category", fparams.category # "all", "All categories", "category option", "active_only")

FiltersActiveOnly ==
    SetterStep("active_only", fparams.active_only, "All trends", "Show active trends only", "sort")

FiltersSort ==
    SetterStep("sort", fparams.sort # "relevance", "By relevance", "sort option", "returned")

\* The geo names tried.
FilterGeos == {Str_United_States, Str_US, Str_united_states, Str_Japan, Str_jp, Str_Atlantis}

InitFilters ==
    /\ RetryIdle
    /\ ScrapeIdle
    /\ TranslatorIdle
    /\ ItemsIdle
    /\ RunIdle
    /\ CliIdle
    /\ ExtractIdle
    /\ ExportIdle
    /\ VolumeIdle
    /\ \E g \in FilterGeos, tw \in {"past_24_hours", "past_4_hours"}, cat \in {"all", "games"},
          ao \in BOOLEAN, so \in {"relevance", "title"} :
         fparams = [geo |-> g, time_window |-> tw, category |-> cat, active_only |-> ao, sort |-> so]
    /\ filter_pc = "wait"
    /\ setters = <<>>
    /\ clicks = <<>>

NextFilters ==
    \/ FiltersWait
    \/ FiltersLocation
    \/ FiltersTimeWindow
    \/ FiltersCategory
    \/ FiltersActiveOnly
    \/ FiltersSort

SpecFilters == InitFilters /\ [][NextFilters]_vars

\* The geo is one of the names that resolve to a URL geo code.
GeoResolved(g) == g \in {Str_United_States, Str_US, Str_Japan, Str_jp}

\* The setters the claim asks for, in the order it fixes.
RequestedSetters ==
    SelectSeq(<<"location", "time_window", "category", "active_only", "sort">>,
              LAMBDA x : \/ (x = "location" /\ fparams.geo # Str_United_States /\ ~GeoResolved(fparams.geo))
                         \/ (x = "time_window" /\ fparams.time_window # "past_24_hours")
                         \/ (x = "category" /\ fparams.category # "all")
                         \/ (x = "active_only" /\ fparams.active_only)
                         \/ (x = "sort" /\ fparams.sort # "relevance"))

IsPrefix(a, b) == Len(a) <= Len(b) /\ a = SubSeq(b, 1, Len(a))

\* The controls only a setter clicks.
ControlsOf(x) ==
    CASE x = "location" -> {"Select location", "location option"}
      [] x = "time_window" -> {"Past 24 hours", "time option"}
      [] x = "category" -> {"All categories", "category option"}
      [] x = "active_only" -> {"All trends", "Show active trends only"}
      [] x = "sort" -> {"By relevance", "sort option"}

\* C24: _apply_filters calls a setter exactly when the requested value is
\* not the page default (the location setter exactly when geo is not United
\* States and did not resolve to a URL geo code), in the order location,
\* time window, category, active-only, sort; every click is made by a
\* setter that was called; with every value at its default no control is
\* clicked.
C24_SettersOnlyWhenRequested ==
    /\ IsPrefix(setters, RequestedSetters)
    /\ filter_pc = "returned" => setters = RequestedSetters
    /\ \A i \in 1 .. Len(clicks) :
          \E j \in 1 .. Len(setters) : clicks[i] \in ControlsOf(setters[j])
    /\ RequestedSetters = <<>> => clicks = <<>>

\* Witness of C24: an unknown geo, a 4-hour window and active-only: three
\* setters ran, in order, and _apply_filters returned.
C24_Witness ==
    /\ filter_pc = "returned"
    /\ fparams.geo = Str_Atlantis
    /\ fparams.category = "all"
    /\ setters = <<"location", "time_window", "active_only">>
    /\ Len(clicks) = 6

\* Every value at its default (geo given by its code): returned, no click.
C24_DefaultsReached ==
    /\ filter_pc = "returned"
    /\ fparams.geo = Str_US
    /\ RequestedSetters = <<>>
    /\ clicks = <<>>

-----------------------------------------------------------------------------
(* The page index of the DOM loops *)

\* Inside one of the two DOM loops.
LoopPcs == {"dom_extract", "dom_next", "fb_extract", "fb_next"}

\* _go_to_next_page is being called: the control is looked for.
AtNextPage == pc \in {"dom_next", "fb_next"}

\* The step in which _go_to_next_page clicked the control and returned True.
NextPageClicked == AtNextPage /\ pc' \in {"dom_extract", "fb_extract"}

C25_State ==
    /\ pc \in LoopPcs => page_index >= 1
    /\ AtNextPage => ~(params.limit > 0 /\ Len(trends) >= params.limit)
    /\ (Returned /\ scrape_result.from \in {"dom", "dom_fallback"}) =>
          \A i, j \in 1 .. Len(scrape_result.items) :
              i < j => scrape_result.items[i].page_index <= scrape_result.items[j].page_index

C25_Step ==
    /\ (pc \notin LoopPcs /\ pc' \in LoopPcs) => page_index' = 1
    /\ NextPageClicked => page_index' = page_index + 1
    /\ (pc \in LoopPcs /\ ~NextPageClicked) => page_index' = page_index

\* C25: in a DOM loop the page index starts at 1 and grows by exactly 1
\* with each successful next-page click and at no other step; the next-page
\* control is never looked for once the accumulated count has reached a
\* positive limit; the page_index values of the returned items never
\* decrease along the list.
C25_PageIndexOrder == [](C25_State) /\ [][C25_Step]_vars

\* Witness of C25: the loop clicked once, the second page brought the count
\* to the limit 2, and the items of pages 1 and 2 were returned.
C25_Witness ==
    /\ Returned
    /\ scrape_result.from = "dom"
    /\ params0.limit = 2
    /\ page_index = 2
    /\ Len(scrape_result.items) = 2
    /\ scrape_result.items[1].page_index = 1
    /\ scrape_result.items[2].page_index = 2

-----------------------------------------------------------------------------
(* The translation cache of one translator instance *)

\* Text t is in one of the lists the last call sent to the service.
SentToService(t) ==
    \E j \in 1 .. Len(call.sent) : \E m \in 1 .. Len(call.sent[j]) : call.sent[j][m] = t

\* C26: on one translator instance the cache only grows: a call removes no
\* entry that was stored before it and changes none; a translate or
\* translate_batch call returns, for a text whose translation was stored
\* before the call, the stored value, and does not send that text to the
\* translation service.
C26_CacheOnlyGrows ==
    call.op \in {"translate", "translate_batch"} =>
        /\ \A k \in DOMAIN call.before : k \in DOMAIN cache /\ cache[k] = call.before[k]
        /\ \A i \in 1 .. Len(call.texts) :
              WasCached(call.texts[i]) =>
                  /\ call.out[i] = call.before[KeyOf(call.texts[i])]
                  /\ ~SentToService(call.texts[i])

\* Witness of C26: a batch of a cached and a new text: the cached value came
\* back, only the new text was sent, and the cache holds both.
C26_Witness ==
    /\ call.op = "translate_batch"
    /\ call.texts = <<(<<"a">>), (<<"b">>)>>
    /\ WasCached(<<"a">>)
    /\ ~WasCached(<<"b">>)
    /\ call.sent = <<(<<(<<"b">>)>>)>>
    /\ call.out[1] = call.before[KeyOf(<<"a">>)]
    /\ KeyOf(<<"b">>) \in DOMAIN cache

-----------------------------------------------------------------------------
(* The waits of retry_with_backoff *)

\* C27: retry_with_backoff sleeps only between attempts: the wait after the
\* k-th failed attempt is initial_delay * backoff_factor^(k-1) and another
\* attempt follows it; there is no wait after the final failed attempt: a
\* run in which every attempt fails makes exactly max_retries waits, and a
\* run that succeeds on attempt j makes exactly j - 1.
C27_SleepsBetweenAttempts ==
    /\ \A k \in 1 .. Len(sleeps) :
          /\ sleeps[k] = initial_delay * Pow(backoff_factor, k - 1)
          /\ k <= Len(outcomes) /\ outcomes[k] = "fail"
          /\ k <= max_retries
    /\ RetryInLoop => Len(sleeps) = calls
    /\ (retry_pc = "loop" /\ attempt > max_retries /\ max_retries >= 0) =>
          (Len(sleeps) = max_retries /\ calls = max_retries + 1)
    /\ (retry_pc = "raised" /\ calls >= 1) => Len(sleeps) = calls - 1
    /\ (retry_pc = "raised" /\ AllFail(outcomes) /\ max_retries >= 0) =>
          Len(sleeps) = max_retries
    /\ retry_pc = "returned" => Len(sleeps) = calls - 1

\* Witness of C27: three failures under max_retries = 2 with initial delay 2
\* and factor 2: the waits were 2 and 4, and none followed the third failure.
C27_Witness ==
    /\ max_retries = 2
    /\ initial_delay = 2
    /\ backoff_factor = 2
    /\ retry_pc = "raised"
    /\ outcomes = <<"fail", "fail", "fail">>
    /\ sleeps = <<2, 4>>

\* Success on the third attempt: two waits.
C27_SuccessReached ==
    /\ retry_pc = "returned"
    /\ calls = 3
    /\ Len(sleeps) = 2

-----------------------------------------------------------------------------
(* How often the DOM fallback is started *)

\* C28: within one scrape_trends call in export_csv or export_rss mode the
\* DOM fallback is started at most once: an exception raised inside the
\* fallback leaves scrape_trends instead of starting the fallback again.
C28_FallbackAtMostOnce == fallback_runs <= 1

-----------------------------------------------------------------------------
(* Termination of the DOM loops *)
(* The loops of scrape_trends and of the fallback without a cap on the     *)
(* number of clicks: the next-page control may be clicked on every page.   *)
(* The page count is the only part of the loop's state that can grow       *)
(* without the item count growing; pages from MaxPages on are counted as   *)
(* page MaxPages.  Every operation returns: each step that is enabled is   *)
(* eventually taken.                                                       *)

\* "page_index += 1", counted up to MaxPages.
PageAfterClick(p) == IF p < MaxPages THEN p + 1 ELSE MaxPages

\* scrape_trends' loop: "not await self._go_to_next_page()".
PagingNextPage ==
    /\ pc = "dom_next"
    /\ \E next \in {"clicked", "none", "error"} :
         IF next = "clicked"
           THEN /\ page_index' = PageAfterClick(page_index)
                /\ Goto("dom_extract")
           ELSE /\ UNCHANGED page_index
                /\ ReturnFromScrape(Truncate(trends, params.limit), "dom")
    /\ UNCHANGED <<params0, trends, extracted, seen>>
    /\ UNCHANGED notScrape

\* The same step inside _fallback_to_dom_scraping.
PagingFallbackNextPage ==
    /\ pc = "fb_next"
    /\ \E next \in {"clicked", "none", "error"} :
         IF next = "clicked"
           THEN /\ page_index' = PageAfterClick(page_index)
                /\ Goto("fb_extract")
           ELSE /\ UNCHANGED page_index
                /\ ReturnFromFallback(Truncate(trends, params.limit))
    /\ UNCHANGED <<params0, trends, extracted, seen>>
    /\ UNCHANGED notScrape

\* scrape_trends is called with a positive limit.
InitPaging ==
    /\ RetryIdle
    /\ TranslatorIdle
    /\ ItemsIdle
    /\ RunIdle
    /\ LaterIdle
    /\ \E em \in ExportModes, lim \in 1 .. MaxLimit, mr \in 0 .. MaxNavRetries :
         params = [export_mode |-> em, limit |-> lim, max_retries |-> mr]
    /\ params0 = params
    /\ pc = "start"
    /\ trends = <<>>
    /\ page_index = 0
    /\ original_mode = "none"
    /\ in_fallback = FALSE
    /\ fallback_from = "none"
    /\ fallback_runs = 0
    /\ extracted = <<>>
    /\ seen = <<>>
    /\ scrape_result = [kind |-> "none"]

NextPaging ==
    \/ ScrapeStart
    \/ (pc = "nav" /\ RetryAttemptOk)
    \/ (pc = "nav" /\ RetryAttemptFail)
    \/ (pc = "nav" /\ RetryAttemptAbort)
    \/ (pc = "nav" /\ RetryExhausted)
    \/ NavigateReturned
    \/ NavigateRaised
    \/ ApplyFiltersReturned
    \/ ApplyFiltersRaised
    \/ ScrapeExtractPage
    \/ PagingNextPage
    \/ FallbackExtractPage
    \/ PagingFallbackNextPage
    \/ CsvExportButton
    \/ CsvOption
    \/ CsvDownload
    \/ RssExportButton
    \/ RssOption
    \/ RssHref
    \/ ExportExcept

SpecPaging == InitPaging /\ [][NextPaging]_vars /\ WF_vars(NextPaging)

\* C29: with a positive limit and every browser operation returning, the
\* DOM loop of scrape_trends, once entered, is left after finitely many
\* page visits, whatever the next-page control and the rows of the pages do.
C29_PagingTerminates ==
    (pc = "dom_extract" /\ params0.export_mode = "scrape" /\ params.limit > 0) ~> Finished

-----------------------------------------------------------------------------
(* retry_with_backoff under every max_retries the CLI can pass *)

\* C30: for every integer max_retries, zero and negative ones included, a
\* finished retry_with_backoff has invoked the callable at least once, and
\* an exception leaving it is one the callable raised.
C30_AtLeastOneAttempt ==
    retry_pc \in {"returned", "raised"} =>
        /\ calls >= 1
        /\ retry_pc = "raised" =>
              /\ retry_result.kind = "exception"
              /\ retry_result.of \in 1 .. calls
              /\ outcomes[retry_result.of] \in {"fail", "abort"}

=============================================================================
